---- MODULE Spec2Model ----
(***************************************************************************)
(* A model of the k-body feature transformation of kcon:                   *)
(*   src/kcnn/transformer.py      Transformer, MultiTransformer,           *)
(*                                FixedLenMultiTransformer                 *)
(*   src/kbody/kbody_transform.py Transformer, MultiTransformer            *)
(*                                                                         *)
(* Conventions.  A chemical symbol and a k-body term key are Python        *)
(* strings; a string is a sequence of character codes ("C" = <<67>>,       *)
(* "Cl" = <<67,108>>), so joining and parsing are computed, and sorted()   *)
(* is the code-point order of Python.  Atom indices are 0-based as in the  *)
(* code; a Python list l is a sequence s with l[i] = s[i+1].  Floats are   *)
(* fixed-point integers: lengths in 1/1000, radii in 1/100, normalised     *)
(* values in 1/10000; +inf is the value Inf.                               *)
(***************************************************************************)
EXTENDS Integers, Sequences, FiniteSets, TLC

(***************************************************************************)
(* Bounds of the model.                                                    *)
(***************************************************************************)
\* largest expansion order k_max that is explored
MaxK == 5
\* number of dispatcher calls explored in one behaviour
MaxCalls == 3
\* longest species list handed to a Transformer directly (ghosts included)
MaxAtoms == 4
\* number of examples handed to a record writer
MaxExamples == 2

(***************************************************************************)
(* Python strings and lists.                                               *)
(***************************************************************************)
Min(a, b) == IF a <= b THEN a ELSE b

Max(a, b) == IF a >= b THEN a ELSE b

\* str.__lt__ : code-point lexicographic order, a proper prefix is smaller
StrLess(a, b) ==
  \E i \in 1..(Min(Len(a), Len(b)) + 1) :
    /\ \A j \in 1..(i - 1) : a[j] = b[j]
    /\ \/ i > Len(a) /\ i <= Len(b)
       \/ i <= Len(a) /\ i <= Len(b) /\ a[i] < b[i]

RECURSIVE Insert(_, _)
\* insert string x into the sorted list s (one step of sorted())
Insert(x, s) ==
  IF s = <<>> THEN <<x>>
  ELSE IF StrLess(Head(s), x) \/ Head(s) = x THEN <<Head(s)>> \o Insert(x, Tail(s))
  ELSE <<x>> \o s

RECURSIVE Sorted(_)
\* sorted(list of str)
Sorted(s) == IF s = <<>> THEN <<>> ELSE Insert(Head(s), Sorted(Tail(s)))

RECURSIVE SortedSet(_)
\* sorted(list(set(...))) for a set of strings
SortedSet(S) ==
  IF S = {} THEN <<>>
  ELSE LET m == CHOOSE x \in S : \A y \in S : x = y \/ StrLess(x, y)
       IN <<m>> \o SortedSet(S \ {m})

RECURSIVE Concat(_)
\* "".join(list) / itertools.chain(*list)
Concat(ss) == IF ss = <<>> THEN <<>> ELSE Head(ss) \o Concat(Tail(ss))

Range(s) == {s[i] : i \in 1..Len(s)}

\* list.count(x)
Count(s, x) == Cardinality({i \in 1..Len(s) : s[i] = x})

RECURSIVE Sum(_)
Sum(s) == IF s = <<>> THEN 0 ELSE Head(s) + Sum(Tail(s))

RECURSIVE combinations(_, _)
\* itertools.combinations(s, r), in the order itertools yields them
combinations(s, r) ==
  IF r = 0 THEN << <<>> >>
  ELSE IF Len(s) < r THEN <<>>
  ELSE LET with == combinations(Tail(s), r - 1)
           without == combinations(Tail(s), r)
       IN [i \in 1..Len(with) |-> <<Head(s)>> \o with[i]] \o without

RECURSIVE product_chain(_)
\* [list(chain(*o)) for o in product(*cands)] : the first factor varies slowest
product_chain(cands) ==
  IF cands = <<>> THEN << <<>> >>
  ELSE LET rest == product_chain(Tail(cands))
           first == Head(cands)
       IN Concat([i \in 1..Len(first) |->
                    [j \in 1..Len(rest) |-> first[i] \o rest[j]]])

RECURSIVE comb(_, _)
\* scipy.misc.comb(n, k, exact=True)
comb(n, k) ==
  IF k < 0 \/ k > n THEN 0
  ELSE IF k = 0 THEN 1
  ELSE (comb(n - 1, k - 1) * n) \div k

(***************************************************************************)
(* Symbols.                                                                *)
(***************************************************************************)
\* the reserved ghost symbol "X"
GHOST == <<88>>

SymC == <<67>>

SymH == <<72>>

SymN == <<78>>

\* "Y", a symbol that sorts behind the ghost symbol
SymY == <<89>>

\* the Pyykko radius of a symbol, in 1/100
pyykko(s) ==
  CASE s = SymC -> 75
    [] s = SymH -> 32
    [] s = SymN -> 71
    [] s = SymY -> 163
    [] s = GHOST -> 32

RECURSIVE distinct_symbols(_)
\* the symbols of a species list, each kept at its last place
distinct_symbols(species) ==
  IF species = <<>> THEN <<>>
  ELSE IF Head(species) \in Range(Tail(species))
       THEN distinct_symbols(Tail(species))
       ELSE <<Head(species)>> \o distinct_symbols(Tail(species))

\* a variant of the formula that drops the repetitions of a symbol
get_formula_symbols(species) == Concat(distinct_symbols(species))

\* get_formula(species)
get_formula(species) == Concat(species)

IsUpper(c) == c >= 65 /\ c <= 90

RECURSIVE get_atoms_from(_, _)
\* the symbols of the string t, cur being the symbol read so far
get_atoms_from(t, cur) ==
  IF t = <<>> THEN (IF cur = <<>> THEN <<>> ELSE <<cur>>)
  ELSE IF IsUpper(Head(t)) /\ cur # <<>>
       THEN <<cur>> \o get_atoms_from(Tail(t), <<Head(t)>>)
       ELSE get_atoms_from(Tail(t), cur \o <<Head(t)>>)

\* get_atoms_from_kbody_term(kbody_term): split the key at its capital letters
get_atoms_from_kbody_term(kbody_term) == get_atoms_from(kbody_term, <<>>)

\* collections.Counter(atoms)
Counter(atoms) == [e \in Range(atoms) |-> Count(atoms, e)]

(***************************************************************************)
(* kcnn: the k-body terms and the mapping.                                 *)
(***************************************************************************)
RECURSIVE dedup(_)
\* the entries of a list, each kept at its first place
dedup(s) ==
  IF s = <<>> THEN <<>>
  ELSE LET front == dedup(SubSeq(s, 1, Len(s) - 1))
       IN IF s[Len(s)] \in Range(front) THEN front
          ELSE Append(front, s[Len(s)])

\* a variant that keeps the terms in the order the combinations yield them
_get_kbody_terms_unsorted(species, k_max) ==
  LET cs == combinations(species, k_max)
  IN dedup([i \in 1..Len(cs) |-> Concat(Sorted(cs[i]))])

\* _get_kbody_terms(species, k_max)
_get_kbody_terms(species, k_max) ==
  LET cs == combinations(species, k_max)
  IN SortedSet({Concat(Sorted(cs[i])) : i \in 1..Len(cs)})

\* atom_index[e] of _get_mapping: the indices of the atoms of symbol e
atom_index(species, e) ==
  LET F[i \in 0..Len(species)] ==
        IF i = 0 THEN <<>>
        ELSE IF species[i] = e THEN F[i - 1] \o <<i - 1>> ELSE F[i - 1]
  IN F[Len(species)]

\* a variant that keeps every term
term_included_always(species, kbody_term) == TRUE

\* the terms _get_mapping keeps: no symbol needed more often than it occurs
term_included(species, kbody_term) ==
  LET atoms == get_atoms_from_kbody_term(kbody_term)
      counter == Counter(atoms)
  IN ~ \E i \in 1..Len(atoms) :
         counter[atoms[i]] > Len(atom_index(species, atoms[i]))

\* a variant that takes the first choice of every species only
k_atoms_selections_first(species, kbody_term) ==
  LET counter == Counter(get_atoms_from_kbody_term(kbody_term))
      sorted_atoms == SortedSet(DOMAIN counter)
  IN <<Concat([i \in 1..Len(sorted_atoms) |->
                 combinations(atom_index(species, sorted_atoms[i]),
                              counter[sorted_atoms[i]])[1]])>>

\* k_atoms_selections of _get_mapping for one term
k_atoms_selections(species, kbody_term) ==
  LET atoms == get_atoms_from_kbody_term(kbody_term)
      counter == Counter(atoms)
      sorted_atoms == SortedSet(DOMAIN counter)
      k_atoms_candidates ==
        [i \in 1..Len(sorted_atoms) |->
           combinations(atom_index(species, sorted_atoms[i]),
                        counter[sorted_atoms[i]])]
  IN product_chain(k_atoms_candidates)

\* a variant that records vj * natoms + vi
term_mapping_transposed(species, kbody_term, sels) ==
  [j \in 1..comb(Len(get_atoms_from_kbody_term(kbody_term)), 2) |->
     [i \in 1..Len(sels) |->
        combinations(sels[i], 2)[j][2] * Len(species)
          + combinations(sels[i], 2)[j][1]]]

\* mapping[kbody_term] of _get_mapping: [j][i] = vi * natoms + vj
term_mapping(species, kbody_term, sels) ==
  LET natoms == Len(species)
      ck2 == comb(Len(get_atoms_from_kbody_term(kbody_term)), 2)
  IN [j \in 1..ck2 |->
       [i \in 1..Len(sels) |->
          LET pair == combinations(sels[i], 2)[j]
          IN pair[1] * natoms + pair[2]]]

\* the selections returned by _get_mapping(species, kbody_terms)
_get_selections(species, kbody_terms) ==
  [t \in {x \in Range(kbody_terms) : term_included(species, x)} |->
     k_atoms_selections(species, t)]

\* the mapping returned by _get_mapping(species, kbody_terms)
_get_mapping(species, kbody_terms) ==
  LET selections == _get_selections(species, kbody_terms)
  IN [t \in DOMAIN selections |-> term_mapping(species, t, selections[t])]

(***************************************************************************)
(* kcnn: Transformer.__init__ (periodic = False throughout the model).     *)
(***************************************************************************)
\* split_dims = None
NoSplitDims == <<-1>>

\* the count of Transformer._get_num_ghosts
num_ghosts_of(species) == Count(species, GHOST)

\* a variant of the check without its cap of two ghosts
_get_num_ghosts_raises_nocap(species, many_body_k) ==
  LET num_ghosts == num_ghosts_of(species)
  IN num_ghosts # 0 /\ many_body_k - num_ghosts # 2

\* Transformer._get_num_ghosts raises ValueError("The number of ghosts is wrong!")
_get_num_ghosts_raises(species, many_body_k) ==
  LET num_ghosts == num_ghosts_of(species)
  IN num_ghosts # 0 /\ (num_ghosts > 2 \/ many_body_k - num_ghosts # 2)

RECURSIVE cumsum(_, _)
\* np.cumsum(s).tolist() continued from the running sum acc
cumsum(s, acc) ==
  IF s = <<>> THEN <<>>
  ELSE <<acc + Head(s)>> \o cumsum(Tail(s), acc + Head(s))

\* a variant whose running sum skips the first entry
cumsum0_skip_first(split_dims) ==
  <<0>> \o cumsum([i \in 1..Len(split_dims) |->
                     IF i = 1 THEN 0 ELSE split_dims[i]], 0)

\* [0] + np.cumsum(split_dims).tolist()
cumsum0(split_dims) == <<0>> \o cumsum(split_dims, 0)

\* kbody_sizes of Transformer.__init__: the number of selections of each term
kbody_sizes_of(kbody_terms, mapping) ==
  [i \in 1..Len(kbody_terms) |->
     IF kbody_terms[i] \in DOMAIN mapping
     THEN (IF Len(mapping[kbody_terms[i]]) = 0 THEN 0
           ELSE Len(mapping[kbody_terms[i]][1]))
     ELSE 0]

\* one group of Transformer._get_conditional_sorting_indices: the columns of a bond
bond_columns(bonds, bond) == 
  LET F[i \in 0..Len(bonds)] ==
        IF i = 0 THEN <<>>
        ELSE IF bonds[i] = bond THEN F[i - 1] \o <<i - 1>> ELSE F[i - 1]
  IN F[Len(bonds)]

\* indices[kbody_term] of _get_conditional_sorting_indices, groups in the order
\* of their first column
cond_sort_groups(kbody_term) ==
  LET atoms == get_atoms_from_kbody_term(kbody_term)
      bonds == combinations(atoms, 2)
      firsts == {i \in 1..Len(bonds) :
                   /\ Count(bonds, bonds[i]) > 1
                   /\ \A j \in 1..(i - 1) : bonds[j] # bonds[i]}
      F[i \in 0..Len(bonds)] ==
        IF i = 0 THEN <<>>
        ELSE IF i \in firsts THEN F[i - 1] \o <<bond_columns(bonds, bonds[i])>>
        ELSE F[i - 1]
  IN F[Len(bonds)]

\* Transformer._get_conditional_sorting_indices(kbody_terms)
_get_conditional_sorting_indices(kbody_terms) ==
  [t \in {x \in Range(kbody_terms) : cond_sort_groups(x) # <<>>} |->
     cond_sort_groups(t)]

\* _get_pyykko_bonds_matrix(species, factor), flattened, in 1/1000; factor10 is
\* ten times the factor (10 for kcnn, 15 for kbody)
_get_pyykko_bonds_matrix(species, factor10) ==
  LET n == Len(species)
  IN [p \in 1..(n * n) |->
       factor10 * (pyykko(species[((p - 1) \div n) + 1])
                   + pyykko(species[((p - 1) % n) + 1]))]

\* a variant that marks every row of every block
_get_binary_weights_whole_blocks(real_dim, offsets, split_dims, kbody_sizes) ==
  [r \in 1..real_dim |->
     IF \E i \in 1..Len(split_dims) :
          r - 1 >= offsets[i] /\ r - 1 < offsets[i] + split_dims[i]
     THEN 1 ELSE 0]

\* Transformer._get_binary_weights
_get_binary_weights(real_dim, offsets, split_dims, kbody_sizes) ==
  [r \in 1..real_dim |->
     IF \E i \in 1..Len(split_dims) :
          r - 1 >= offsets[i] /\ r - 1 < offsets[i] + kbody_sizes[i]
     THEN 1 ELSE 0]

\* Transformer.__init__: the constructed object, or the error it raises
Transformer(species, k_max, kbody_terms_arg, split_dims_arg, norm_order, atomic_forces) ==
  LET kbody_terms == IF kbody_terms_arg # <<>> THEN kbody_terms_arg
                     ELSE _get_kbody_terms(species, k_max)
      mapping == _get_mapping(species, kbody_terms)
      selections == _get_selections(species, kbody_terms)
      kbody_sizes == kbody_sizes_of(kbody_terms, mapping)
      split_dims == IF split_dims_arg = NoSplitDims
                    THEN [i \in 1..Len(kbody_terms) |-> Max(kbody_sizes[i], 1)]
                    ELSE split_dims_arg
      offsets == cumsum0(split_dims)
      real_dim == offsets[Len(offsets)]
  IN IF split_dims_arg # NoSplitDims /\ Len(split_dims_arg) # Len(kbody_terms_arg)
     THEN [err |-> "AssertionError"]
     ELSE IF _get_num_ghosts_raises(species, k_max)
     THEN [err |-> "GhostError"]
     ELSE [err |-> "none",
           k_max |-> k_max,
           kbody_terms |-> kbody_terms,
           offsets |-> offsets,
           kbody_sizes |-> kbody_sizes,
           species |-> species,
           mapping |-> mapping,
           selections |-> selections,
           split_dims |-> split_dims,
           ck2 |-> comb(k_max, 2),
           cond_sort |-> _get_conditional_sorting_indices(kbody_terms),
           normalizers |-> _get_pyykko_bonds_matrix(species, 10),
           norm_order |-> norm_order,
           num_ghosts |-> num_ghosts_of(species),
           real_dim |-> real_dim,
           binary_weights |->
             _get_binary_weights(real_dim, offsets, split_dims, kbody_sizes),
           atomic_forces |-> atomic_forces]

(***************************************************************************)
(* Geometry and normalisation.                                             *)
(***************************************************************************)
\* np.inf
Inf == -1

RECURSIVE isqrt(_, _, _)
\* the largest r in lo..hi with r * r <= n
isqrt(n, lo, hi) ==
  IF lo >= hi THEN lo
  ELSE LET mid == (lo + hi + 1) \div 2
       IN IF mid * mid <= n THEN isqrt(n, mid, hi) ELSE isqrt(n, lo, mid - 1)

\* the Euclidean distance of two points with integer coordinates, in 1/1000
distance(a, b) ==
  LET d2 == (a[1] - b[1]) * (a[1] - b[1]) + (a[2] - b[2]) * (a[2] - b[2])
            + (a[3] - b[3]) * (a[3] - b[3])
  IN isqrt(d2 * 1000 * 1000, 0, 1000 * (d2 + 1))

\* Transformer._get_coords: the positions followed by num_ghosts zero vectors
_get_coords(num_ghosts, positions) ==
  positions \o [g \in 1..num_ghosts |-> <<0, 0, 0>>]

\* a variant whose ghost slices start one row and one column too late
_get_interatomic_distances_late(num_ghosts, coords) ==
  LET n == Len(coords)
  IN [p \in 1..(n * n) |->
       LET i == (p - 1) \div n
           j == (p - 1) % n
       IN IF num_ghosts > 0 /\ (i > n - num_ghosts \/ j > n - num_ghosts)
          THEN Inf
          ELSE distance(coords[i + 1], coords[j + 1])]

\* the flattened dists of Transformer._get_interatomic_distances (not periodic):
\* pairwise_distances, then the last num_ghosts rows and columns set to inf
_get_interatomic_distances(num_ghosts, coords) ==
  LET n == Len(coords)
  IN [p \in 1..(n * n) |->
       LET i == (p - 1) \div n
           j == (p - 1) % n
       IN IF num_ghosts > 0 /\ (i >= n - num_ghosts \/ j >= n - num_ghosts)
          THEN Inf
          ELSE distance(coords[i + 1], coords[j + 1])]

\* exp(-n) for an integer n, in 1/10000
exp_neg_int(n) ==
  CASE n = 0 -> 10000 [] n = 1 -> 3678 [] n = 2 -> 1353 [] n = 3 -> 497
    [] n = 4 -> 183 [] n = 5 -> 67 [] n = 6 -> 24 [] n = 7 -> 9
    [] n = 8 -> 3 [] n = 9 -> 1 [] OTHER -> 0

\* exp(-f / 1000) for 0 <= f < 1000, in 1/10000 (Taylor series)
exp_neg_frac(f) ==
  10000 - 10 * f + (f * f) \div 200 - (f * f * f) \div 600000
  + (((f * f) \div 1000) * ((f * f) \div 1000)) \div 2400

\* np.exp(-t) for t in 1/1000, in 1/10000; exp(-inf) = 0
exp_neg(t) ==
  IF t = Inf THEN 0
  ELSE (exp_neg_int(t \div 1000) * exp_neg_frac(t % 1000)) \div 10000

\* x / l for x and l in 1/1000; inf / l = inf
fdiv(x, l) == IF x = Inf THEN Inf ELSE (x * 1000) \div l

RECURSIVE fpow(_, _)
\* q ** order for order >= 1, q in 1/1000; inf ** order = inf; values past
\* exp's underflow are kept at 20
fpow(q, order) ==
  IF q = Inf THEN Inf
  ELSE IF order <= 1 THEN Min(q, 20000)
  ELSE Min((fpow(q, order - 1) * Min(q, 20000)) \div 1000, 20000)

\* normalize(x, l, order)
normalize(x, l, order) ==
  IF order = 0 THEN exp_neg(x) ELSE exp_neg(fpow(fdiv(x, l), order))

(***************************************************************************)
(* kcnn: Transformer._assign, _conditionally_sort and transform without    *)
(* atomic forces.  A feature matrix is a sequence of rows.                 *)
(***************************************************************************)
\* np.zeros((nrows, ncols))
zeros(nrows, ncols) == [r \in 1..nrows |-> [c \in 1..ncols |-> 0]]

\* the shape of a matrix
shape_of(m) == <<Len(m), IF Len(m) = 0 THEN 0 ELSE Len(m[1])>>

\* self._offsets[i + 1] of _assign is out of range: fewer split_dims than terms
assign_index_fails(clf) ==
  \E i \in 1..Len(clf.kbody_terms) :
     /\ clf.kbody_terms[i] \in DOMAIN clf.mapping
     /\ i + 1 > Len(clf.offsets)

\* istep of _assign for the term at position i (1-based) of kbody_terms
assign_istep(clf, i) ==
  Min(clf.offsets[i + 1] - clf.offsets[i], clf.kbody_sizes[i])

\* numpy cannot broadcast the cnk values of a term into its istep rows
assign_broadcast_fails(clf) ==
  \E i \in 1..Len(clf.kbody_terms) :
     /\ clf.kbody_terms[i] \in DOMAIN clf.mapping
     /\ clf.kbody_sizes[i] # assign_istep(clf, i)
     /\ clf.kbody_sizes[i] # 1

\* the features of Transformer._assign(dists, delta, features) 
_assign(clf, dists, features) ==
  [r \in 1..clf.real_dim |->
     [c \in 1..clf.ck2 |->
        LET owner == {i \in 1..Len(clf.kbody_terms) :
                        /\ clf.kbody_terms[i] \in DOMAIN clf.mapping
                        /\ r - 1 >= clf.offsets[i]
                        /\ r - 1 < clf.offsets[i] + assign_istep(clf, i)}
        IN IF owner = {} THEN features[r][c]
           ELSE LET i == CHOOSE x \in owner : TRUE
                    m == clf.mapping[clf.kbody_terms[i]][c]
                    col == IF Len(m) = 1 THEN 1 ELSE r - clf.offsets[i]
                IN dists[m[col] + 1]]]

RECURSIVE insert_num(_, _)
insert_num(x, s) ==
  IF s = <<>> THEN <<x>>
  ELSE IF Head(s) <= x THEN <<Head(s)>> \o insert_num(x, Tail(s))
  ELSE <<x>> \o s

RECURSIVE sort_num(_)
\* np.sort of a vector
sort_num(s) == IF s = <<>> THEN <<>> ELSE insert_num(Head(s), sort_num(Tail(s)))

\* a variant that sorts the whole row
sort_columns_all(row, ix) == sort_num(row)

\* z = row[ix]; z.sort(); row[ix] = z   (ix holds 0-based columns)
sort_columns(row, ix) ==
  LET z == sort_num([m \in 1..Len(ix) |-> row[ix[m] + 1]])
  IN [c \in 1..Len(row) |->
       IF \E m \in 1..Len(ix) : ix[m] + 1 = c
       THEN z[CHOOSE m \in 1..Len(ix) : ix[m] + 1 = c]
       ELSE row[c]]

RECURSIVE sort_groups(_, _)
\* the loop over the groups ix of one term, applied to one row
sort_groups(row, groups) ==
  IF groups = <<>> THEN row
  ELSE sort_groups(sort_columns(row, Head(groups)), Tail(groups))

\* a variant that leaves every row as _assign filled it
_conditionally_sort_skipped(clf, features) == features

\* the features of Transformer._conditionally_sort when atomic forces are off
_conditionally_sort(clf, features) ==
  [r \in 1..Len(features) |->
     LET owner == {i \in 1..Len(clf.kbody_terms) :
                     /\ clf.kbody_terms[i] \in DOMAIN clf.mapping
                     /\ clf.kbody_terms[i] \in DOMAIN clf.cond_sort
                     /\ r - 1 >= clf.offsets[i]
                     /\ r - 1 < clf.offsets[i + 1]}
     IN IF owner = {} THEN features[r]
        ELSE sort_groups(features[r],
               clf.cond_sort[clf.kbody_terms[CHOOSE x \in owner : TRUE]])]

\* the normalised flattened distances computed by Transformer.transform
norm_dists(clf, positions) ==
  LET dists == _get_interatomic_distances(clf.num_ghosts,
                                          _get_coords(clf.num_ghosts, positions))
  IN [p \in 1..Len(dists) |->
       normalize(dists[p], clf.normalizers[p], clf.norm_order)]

\* a variant of the shape test that compares the numbers of rows only
shape_differs_rows(clf, features) == Len(features) # clf.real_dim

\* features.shape != self.shape of _assign; the width of a matrix without rows
\* is not represented
shape_differs(clf, features) ==
  \/ Len(features) # clf.real_dim
  \/ \E r \in 1..Len(features) : Len(features[r]) # clf.ck2

\* Transformer.transform(atoms, features): the features returned, or the error
transform(clf, positions, features) ==
  IF shape_differs(clf, features)
  THEN [err |-> "ShapeError"]
  ELSE IF assign_index_fails(clf) THEN [err |-> "IndexError"]
  ELSE IF assign_broadcast_fails(clf) THEN [err |-> "BroadcastError"]
  ELSE [err |-> "none",
        features |->
          _conditionally_sort(clf, _assign(clf, norm_dists(clf, positions),
                                           features))]

\* the first term (1-based position) at which the loop of _assign raises
assign_failing(clf) ==
  LET bad == {i \in 1..Len(clf.kbody_terms) :
                /\ clf.kbody_terms[i] \in DOMAIN clf.mapping
                /\ \/ i + 1 > Len(clf.offsets)
                   \/ /\ clf.kbody_sizes[i] # assign_istep(clf, i)
                      /\ clf.kbody_sizes[i] # 1}
  IN CHOOSE i \in bad : \A j \in bad : i <= j

\* the caller's buffer after transform(atoms, features=features) returned res
\* or raised res.err: the buffer is tested before the loop of _assign, the loop
\* writes into it term by term, and the sort works on it in place
buffer_after(clf, positions, features, res) ==
  IF res.err = "none" THEN res.features
  ELSE IF res.err = "ShapeError" THEN features
  ELSE _assign([clf EXCEPT !.kbody_terms =
                             SubSeq(@, 1, assign_failing(clf) - 1)],
               norm_dists(clf, positions), features)

(***************************************************************************)
(* kcnn: the arrays of Transformer.transform when atomic forces are on     *)
(* (not periodic), up to the return of _conditionally_sort.                *)
(***************************************************************************)
\* delta of _get_interatomic_distances reshaped to (-1, 3): for i < j both
\* delta[i, j] and delta[j, i] hold coords[j] - coords[i]; the rows and columns
\* of the ghosts are set to 0
_get_delta(num_ghosts, coords) ==
  LET n == Len(coords)
  IN [p \in 1..(n * n) |->
       LET i == (p - 1) \div n
           j == (p - 1) % n
       IN IF i = j \/ (num_ghosts > 0
                         /\ (i >= n - num_ghosts \/ j >= n - num_ghosts))
          THEN <<0, 0, 0>>
          ELSE [x \in 1..3 |->
                  coords[Max(i, j) + 1][x] - coords[Min(i, j) + 1][x]]]

\* dr of _assign: column j * ck2 + k holds +delta[mapping[k], j] and column
\* j * ck2 + k + half holds -delta[mapping[k], j]
_assign_dr(clf, delta) ==
  LET plane == [j \in 1..3 |->
                  _assign(clf, [p \in 1..Len(delta) |-> delta[p][j]],
                          zeros(clf.real_dim, clf.ck2))]
  IN [r \in 1..clf.real_dim |->
       [c \in 1..(6 * clf.ck2) |->
          LET j == ((c - 1) \div clf.ck2) % 3
              k == (c - 1) % clf.ck2
          IN IF c - 1 < 3 * clf.ck2 THEN plane[j + 1][r][k + 1]
             ELSE 0 - plane[j + 1][r][k + 1]]]

\* index_matrix[offset + j, l] of _get_indexing_matrix is out of range
indexing_index_fails(clf) ==
  \E i \in 1..Len(clf.kbody_terms) :
     /\ clf.kbody_terms[i] \in DOMAIN clf.selections
     /\ clf.offsets[i] + Len(clf.selections[clf.kbody_terms[i]]) > clf.real_dim

\* Transformer._get_indexing_matrix: the pair (a, b) of every cell, (-1, -1)
\* where no selection was written; a later term overwrites an earlier one
_get_indexing_matrix(clf) ==
  [r \in 1..clf.real_dim |->
     [c \in 1..clf.ck2 |->
        LET owner == {i \in 1..Len(clf.kbody_terms) :
                        /\ clf.kbody_terms[i] \in DOMAIN clf.selections
                        /\ r - 1 >= clf.offsets[i]
                        /\ r - 1 < clf.offsets[i]
                                     + Len(clf.selections[clf.kbody_terms[i]])}
        IN IF owner = {} THEN <<-1, -1>>
           ELSE LET i == CHOOSE x \in owner : \A y \in owner : y <= x
                IN combinations(
                     clf.selections[clf.kbody_terms[i]][r - clf.offsets[i]],
                     2)[c]]]

\* np.argsort of a vector of fewer than 16 entries (insertion sort: equal
\* entries keep their order); positions are 1-based
argsort(v) ==
  [m \in 1..Len(v) |->
     CHOOSE i \in 1..Len(v) :
        Cardinality({j \in 1..Len(v) :
                       v[j] < v[i] \/ (v[j] = v[i] /\ j < i)}) = m - 1]

\* array[:, ix] = cond_sort(array[:, ix], orders, shape) for one row, the
\* columns of the array starting at column cstart of the row
cond_sort(row, ix, orders, cstart) ==
  [c \in 1..Len(row) |->
     IF \E m \in 1..Len(ix) : cstart + ix[m] + 1 = c
     THEN row[cstart
              + ix[orders[CHOOSE m \in 1..Len(ix) : cstart + ix[m] + 1 = c]]
              + 1]
     ELSE row[c]]

\* a variant that sorts the three +delta blocks of a row of dr only
cond_sort_dr_half(row, ix, orders, ck2, n) ==
  cond_sort(cond_sort(cond_sort(row, ix, orders, 0), ix, orders, ck2),
            ix, orders, 2 * ck2)

RECURSIVE cond_sort_dr(_, _, _, _, _)
\* the loop `for axis in range(6)` over the six blocks of a row of dr, n
\* blocks still to do
cond_sort_dr(row, ix, orders, ck2, n) ==
  IF n = 0 THEN row
  ELSE cond_sort_dr(cond_sort(row, ix, orders, (6 - n) * ck2), ix, orders,
                    ck2, n - 1)

RECURSIVE sort_groups_forces(_, _, _)
\* the loop over the groups ix of one term, applied to one row of features,
\* cr, indexing and dr
sort_groups_forces(row, groups, ck2) ==
  IF groups = <<>> THEN row
  ELSE LET ix == Head(groups)
           orders == argsort([m \in 1..Len(ix) |-> row.features[ix[m] + 1]])
       IN sort_groups_forces(
            [features |-> cond_sort(row.features, ix, orders, 0),
             cr |-> cond_sort(row.cr, ix, orders, 0),
             indexing |-> cond_sort(row.indexing, ix, orders, 0),
             dr |-> cond_sort_dr(row.dr, ix, orders, ck2, 6)],
            Tail(groups), ck2)

\* Transformer._conditionally_sort when atomic forces are on: the rows of
\* features, cr, dr and indexing
_conditionally_sort_forces(clf, features, cr, dr, indexing) ==
  [r \in 1..Len(features) |->
     LET owner == {i \in 1..Len(clf.kbody_terms) :
                     /\ clf.kbody_terms[i] \in DOMAIN clf.mapping
                     /\ clf.kbody_terms[i] \in DOMAIN clf.cond_sort
                     /\ r - 1 >= clf.offsets[i]
                     /\ r - 1 < clf.offsets[i + 1]}
         row == [features |-> features[r], cr |-> cr[r], dr |-> dr[r],
                 indexing |-> indexing[r]]
     IN IF owner = {} THEN row
        ELSE sort_groups_forces(row,
               clf.cond_sort[clf.kbody_terms[CHOOSE x \in owner : TRUE]],
               clf.ck2)]

\* Transformer.transform(atoms) with atomic forces on, up to the return of
\* _conditionally_sort: features, cr, dr and indexing, or the error
transform_forces(clf, positions) ==
  IF assign_index_fails(clf) THEN [err |-> "IndexError"]
  ELSE IF assign_broadcast_fails(clf) THEN [err |-> "BroadcastError"]
  ELSE IF indexing_index_fails(clf) THEN [err |-> "IndexError"]
  ELSE [err |-> "none",
        rows |->
          _conditionally_sort_forces(clf,
            _assign(clf, norm_dists(clf, positions),
                    zeros(clf.real_dim, clf.ck2)),
            _assign(clf, clf.normalizers, zeros(clf.real_dim, clf.ck2)),
            _assign_dr(clf, _get_delta(clf.num_ghosts,
                                       _get_coords(clf.num_ghosts, positions))),
            _get_indexing_matrix(clf))]

(***************************************************************************)
(* kcnn: MultiTransformer and FixedLenMultiTransformer.  A dict is a       *)
(* function on its keys.  Atomic forces are off in the dispatchers.        *)
(***************************************************************************)
\* d.get(key, default)
dict_get(d, key, default) == IF key \in DOMAIN d THEN d[key] ELSE default

\* list(repeat(x, n))
repeat(x, n) == [i \in 1..n |-> x]

\* a <= b for a finite a and a b that may be np.inf
leq_inf(a, b) == b = Inf \/ a <= b

\* num_ghosts of MultiTransformer.__init__
mt_num_ghosts(k_max, include_all_k) ==
  IF include_all_k /\ k_max >= 3 THEN k_max - 2 ELSE 0

\* atom_types of MultiTransformer.__init__ after the ghosts were appended
mt_atom_types(atom_types, k_max, include_all_k) ==
  LET num_ghosts == mt_num_ghosts(k_max, include_all_k)
  IN IF num_ghosts > 0 /\ GHOST \notin Range(atom_types)
     THEN atom_types \o repeat(GHOST, num_ghosts)
     ELSE atom_types

\* max_occurs of MultiTransformer.__init__ before its loop over atom_types
mt_given_occurs(k_max, max_occurs, include_all_k) ==
  LET num_ghosts == mt_num_ghosts(k_max, include_all_k)
  IN IF num_ghosts > 0 THEN (GHOST :> num_ghosts) @@ max_occurs ELSE max_occurs

\* the local list `species` of MultiTransformer.__init__ : the pool the k-body
\* terms are drawn from (atom_types names every real symbol once)
mt_species_pool(atom_types, k_max, max_occurs, include_all_k) ==
  LET types == mt_atom_types(atom_types, k_max, include_all_k)
      given == mt_given_occurs(k_max, max_occurs, include_all_k)
  IN Concat([i \in 1..Len(types) |->
               repeat(types[i], dict_get(given, types[i], k_max))])

\* MultiTransformer.__init__
MultiTransformer(atom_types, k_max, max_occurs, norm_order, include_all_k) ==
  LET types == mt_atom_types(atom_types, k_max, include_all_k)
      given == mt_given_occurs(k_max, max_occurs, include_all_k)
      pool == mt_species_pool(atom_types, k_max, max_occurs, include_all_k)
      occurs == [e \in DOMAIN given \cup Range(types) |->
                   dict_get(given, e, Inf)]
  IN [kind |-> "MultiTransformer",
      include_all_k |-> include_all_k,
      k_max |-> k_max,
      atom_types |-> Range(types),
      pool |-> pool,
      kbody_terms |-> _get_kbody_terms(pool, k_max),
      max_occurs |-> occurs,
      norm_order |-> norm_order,
      species |-> SortedSet(DOMAIN occurs),
      num_atom_types |-> Cardinality(DOMAIN occurs),
      num_ghosts |-> mt_num_ghosts(k_max, include_all_k),
      atomic_forces |-> FALSE,
      split_dims |-> NoSplitDims,
      total_dim |-> 0]

RECURSIVE prod_comb(_, _, _)
\* np.prod([comb(max_occurs[e], k, True) for e, k in counter.items()])
prod_comb(max_occurs, counter, keys) ==
  IF keys = <<>> THEN 1
  ELSE comb(max_occurs[Head(keys)], counter[Head(keys)])
       * prod_comb(max_occurs, counter, Tail(keys))

\* FixedLenMultiTransformer._get_fixed_split_dims
_get_fixed_split_dims(kbody_terms, max_occurs) ==
  [i \in 1..Len(kbody_terms) |->
     LET counter == Counter(get_atoms_from_kbody_term(kbody_terms[i]))
     IN prod_comb(max_occurs, counter, SortedSet(DOMAIN counter))]

\* FixedLenMultiTransformer.__init__
FixedLenMultiTransformer(max_occurs, k_max, norm_order, include_all_k) ==
  LET base == MultiTransformer(SortedSet(DOMAIN max_occurs), k_max, max_occurs,
                               norm_order, include_all_k)
      split_dims == _get_fixed_split_dims(base.kbody_terms, base.max_occurs)
  IN [base EXCEPT !.kind = "FixedLenMultiTransformer",
                  !.split_dims = split_dims,
                  !.total_dim = Sum(split_dims)]

\* a variant that only asks for configured symbols and ignores the maxima
accept_species_any_count(self, species) ==
  \A e \in Range(species) : e \in DOMAIN self.max_occurs

\* MultiTransformer.accept_species
accept_species(self, species) ==
  \A e \in Range(species) :
     leq_inf(Count(species, e), dict_get(self.max_occurs, e, 0))

\* a variant that lets every Transformer derive its own split_dims
new_transformer_own_dims(self, species) ==
  Transformer(species \o repeat(GHOST, self.num_ghosts), self.k_max,
              self.kbody_terms, NoSplitDims, self.norm_order,
              self.atomic_forces)

\* the Transformer that MultiTransformer._get_transformer constructs while it
\* evaluates the arguments of dict.get
new_transformer(self, species) ==
  Transformer(species \o repeat(GHOST, self.num_ghosts), self.k_max,
              self.kbody_terms, self.split_dims, self.norm_order,
              self.atomic_forces)

\* a variant of the lookup that always takes the instance just constructed
cache_get_new(cache, formula, new) == new

\* self._transformers.get(formula, new)
cache_get(cache, formula, new) == dict_get(cache, formula, new)

\* the last two statements of _get_transformer, new being the constructed
\* Transformer (or the error its constructor raised) and new_id its identity
cache_store(cache, formula, new, new_id) ==
  IF new.err # "none"
  THEN [err |-> new.err, transformers |-> cache, built |-> 0]
  ELSE [err |-> "none", formula |-> formula,
        clf |-> cache_get(cache, formula, [id |-> new_id, clf |-> new]),
        transformers |->
          (formula :> cache_get(cache, formula, [id |-> new_id, clf |-> new]))
          @@ cache,
        built |-> 1]

\* MultiTransformer._get_transformer: the instance returned, the cache left and
\* the number of Transformers constructed
_get_transformer(self, cache, species, new_id) ==
  cache_store(cache, get_formula(species \o repeat(GHOST, self.num_ghosts)),
              new_transformer(self, species), new_id)

\* occurs[0, loc] of MultiTransformer.transform
occurs_of(self, species) ==
  [loc \in 1..Len(self.species) |-> Count(species, self.species[loc])]

\* the outcome of a call that raised after _get_transformer returned
raised_after(err, got) ==
  [err |-> err, transformers |-> got.transformers, built |-> got.built]

\* the outcome of a call that raised before _get_transformer was called
raised_before(err, cache) ==
  [err |-> err, transformers |-> cache, built |-> 0]

\* the KcnnSample of MultiTransformer.transform, res being what clf.transform
\* returned
transform_sample(self, species, got, res) ==
  IF res.err # "none" THEN raised_after(res.err, got)
  ELSE [err |-> "none", formula |-> got.formula, id |-> got.clf.id,
        transformers |-> got.transformers, built |-> got.built,
        sample |-> [features |-> res.features,
                    split_dims |-> got.clf.clf.split_dims,
                    binary_weights |-> got.clf.clf.binary_weights,
                    occurs |-> occurs_of(self, species)]]

\* MultiTransformer.transform after the species were accepted, got being what
\* _get_transformer returned
transform_accepted(self, species, positions, got) ==
  IF got.err # "none" THEN got
  ELSE transform_sample(self, species, got,
         transform(got.clf.clf, positions,
                   zeros(got.clf.clf.real_dim, got.clf.clf.ck2)))

\* MultiTransformer.transform(atoms): the sample returned or the error raised,
\* the cache left and the number of Transformers constructed
mt_transform(self, cache, species, positions, new_id) ==
  IF ~ accept_species(self, species) THEN raised_before("ValueError", cache)
  ELSE transform_accepted(self, species, positions,
                          _get_transformer(self, cache, species, new_id))

\* the KcnnSample of transform_trajectory, res being what clf.transform returned
\* for each structure
trajectory_sample(self, species, got, res) ==
  IF \E i \in 1..Len(res) : res[i].err # "none"
  THEN raised_after(res[CHOOSE i \in 1..Len(res) : res[i].err # "none"].err,
                    got)
  ELSE [err |-> "none", formula |-> got.formula, id |-> got.clf.id,
        transformers |-> got.transformers, built |-> got.built,
        sample |->
          [features |-> [i \in 1..Len(res) |-> res[i].features],
           split_dims |-> got.clf.clf.split_dims,
           binary_weights |-> [i \in 1..Len(res) |-> got.clf.clf.binary_weights],
           occurs |-> [i \in 1..Len(res) |-> occurs_of(self, species)]]]

\* transform_trajectory after the species were accepted
trajectory_accepted(self, species, frames, got) ==
  IF got.err # "none" THEN got
  ELSE trajectory_sample(self, species, got,
         [i \in 1..Len(frames) |->
            transform(got.clf.clf, frames[i],
                      zeros(got.clf.clf.real_dim, got.clf.clf.ck2))])

\* MultiTransformer.transform_trajectory(trajectory): species are the symbols of
\* trajectory[0], frames the positions of its structures
mt_transform_trajectory(self, cache, species, frames, new_id) ==
  IF Len(frames) = 0 THEN raised_before("AssertionError", cache)
  ELSE IF ~ accept_species(self, species)
  THEN raised_before("ValueError", cache)
  ELSE trajectory_accepted(self, species, frames,
                           _get_transformer(self, cache, species, new_id))

\* the unit of the atomic energies: 1/60, so that a share 1/k is exact
EnergyUnit == 60

\* k of compute_atomic_energies: len(kbody_term) - kbody_term.count(GHOST)
real_k(kbody_term) == Len(kbody_term) - Count(kbody_term, GHOST[1])

\* the (term position, selection position) pairs compute_atomic_energies visits
energy_visits(c) ==
  {<<i, ki>> \in (1..Len(c.kbody_terms)) \X (0..c.real_dim) :
     /\ c.kbody_terms[i] \in DOMAIN c.selections
     /\ ki < Len(c.selections[c.kbody_terms[i]])}

RECURSIVE sum_over(_, _)
\* the sum of f over the finite set S
sum_over(f, S) ==
  IF S = {} THEN 0
  ELSE LET x == CHOOSE y \in S : TRUE IN f[x] + sum_over(f, S \ {x})

\* y_atomic[step] of compute_atomic_energies for one row of y_kbody, in 1/60
atomic_energies_row(c, species, y_row, y_atomic_1body) ==
  LET visits == energy_visits(c)
  IN [a \in 1..Len(species) |->
        EnergyUnit * y_atomic_1body[species[a]]
        + sum_over(
            [v \in visits |->
               LET term == c.kbody_terms[v[1]]
                   k == real_k(term)
                   indices == c.selections[term][v[2] + 1]
               IN IF \E m \in 1..Min(k, Len(indices)) : indices[m] = a - 1
                  THEN y_row[c.offsets[v[1]] + v[2] + 1] * (EnergyUnit \div k)
                  ELSE 0],
            visits)]

\* y_atomic[step, ai] is out of range for some ai in indices[:k]: y_atomic has
\* num_atoms = len(species) columns
energy_index_fails(c, num_atoms) ==
  \E v \in energy_visits(c) :
     LET indices == c.selections[c.kbody_terms[v[1]]][v[2] + 1]
     IN \E m \in 1..Min(real_k(c.kbody_terms[v[1]]), Len(indices)) :
           indices[m] >= num_atoms

\* compute_atomic_energies after _get_transformer returned got
energies_with(species, y_kbody, y_atomic_1body, got) ==
  IF got.err # "none" THEN got
  ELSE IF \E a \in 1..Len(species) : species[a] \notin DOMAIN y_atomic_1body
  THEN raised_after("KeyError", got)
  ELSE IF /\ y_kbody # <<>>
          /\ \E v \in energy_visits(got.clf.clf) :
                real_k(got.clf.clf.kbody_terms[v[1]]) = 0
  THEN raised_after("ZeroDivisionError", got)
  ELSE IF \E s \in 1..Len(y_kbody) : \E v \in energy_visits(got.clf.clf) :
             got.clf.clf.offsets[v[1]] + v[2] + 1 > Len(y_kbody[s])
  THEN raised_after("IndexError", got)
  ELSE IF y_kbody # <<>> /\ energy_index_fails(got.clf.clf, Len(species))
  THEN raised_after("IndexError", got)
  ELSE [err |-> "none", formula |-> got.formula, id |-> got.clf.id,
        transformers |-> got.transformers, built |-> got.built,
        y_atomic |->
          [s \in 1..Len(y_kbody) |->
             atomic_energies_row(got.clf.clf, species, y_kbody[s],
                                 y_atomic_1body)]]

\* MultiTransformer.compute_atomic_energies(species, y_kbody, y_atomic_1body),
\* y_kbody given by its rows
mt_compute_atomic_energies(self, cache, species, y_kbody, y_atomic_1body, new_id) ==
  energies_with(species, y_kbody, y_atomic_1body,
                _get_transformer(self, cache, species, new_id))

(***************************************************************************)
(* kbody: Transformer and MultiTransformer of kbody_transform.py.  A term  *)
(* key joins its symbols with commas.                                      *)
(***************************************************************************)
RECURSIVE join_comma(_)
\* ",".join(list)
join_comma(s) ==
  IF s = <<>> THEN <<>>
  ELSE IF Len(s) = 1 THEN s[1]
  ELSE s[1] \o <<44>> \o join_comma(Tail(s))

RECURSIVE split_from(_, _)
\* the pieces of the string t, cur being the piece read so far
split_from(t, cur) ==
  IF t = <<>> THEN <<cur>>
  ELSE IF Head(t) = 44 THEN <<cur>> \o split_from(Tail(t), <<>>)
  ELSE split_from(Tail(t), cur \o <<Head(t)>>)

\* term.split(",")
split_comma(term) == split_from(term, <<>>)

\* sorted(list(set([",".join(sorted(c)) for c in combinations(species, k)])))
kb_kbody_terms(species, many_body_k) ==
  LET cs == combinations(species, many_body_k)
  IN SortedSet({join_comma(Sorted(cs[i])) : i \in 1..Len(cs)})

\* element_indices[e] of _gen_dist2inputs_mapping raises KeyError: a term names
\* an element that the species do not contain
kb_mapping_raises(species, kbody_terms) ==
  \E i \in 1..Len(kbody_terms) :
     \E e \in Range(split_comma(kbody_terms[i])) : e \notin Range(species)

\* the terms _gen_dist2inputs_mapping keeps
kb_term_included(species, term) ==
  LET elements == split_comma(term)
      counter == Counter(elements)
  IN ~ \E i \in 1..Len(elements) :
         counter[elements[i]] > Len(atom_index(species, elements[i]))

\* kbodies of _gen_dist2inputs_mapping for one term
kb_kbodies(species, term) ==
  LET counter == Counter(split_comma(term))
      keys == SortedSet(DOMAIN counter)
  IN product_chain([i \in 1..Len(keys) |->
                      combinations(atom_index(species, keys[i]),
                                   counter[keys[i]])])

\* the selections returned by _gen_dist2inputs_mapping
kb_selections(species, kbody_terms) ==
  [t \in {x \in Range(kbody_terms) : kb_term_included(species, x)} |->
     kb_kbodies(species, t)]

\* the mapping returned by _gen_dist2inputs_mapping: [j][i] = vi * natoms + vj
_gen_dist2inputs_mapping(species, kbody_terms) ==
  LET selections == kb_selections(species, kbody_terms)
      natoms == Len(species)
  IN [t \in DOMAIN selections |->
        [j \in 1..comb(Len(split_comma(t)), 2) |->
           [i \in 1..Len(selections[t]) |->
              LET pair == combinations(selections[t][i], 2)[j]
              IN pair[1] * natoms + pair[2]]]]

\* the groups of columns that hold the same pair of symbols, for a list of atoms
pair_groups(atoms) ==
  LET pairs == combinations(atoms, 2)
      firsts == {i \in 1..Len(pairs) :
                   /\ Count(pairs, pairs[i]) > 1
                   /\ \A j \in 1..(i - 1) : pairs[j] # pairs[i]}
      F[i \in 0..Len(pairs)] ==
        IF i = 0 THEN <<>>
        ELSE IF i \in firsts THEN F[i - 1] \o <<bond_columns(pairs, pairs[i])>>
        ELSE F[i - 1]
  IN F[Len(pairs)]

\* _gen_sorting_indices(kbody_terms)
_gen_sorting_indices(kbody_terms) ==
  [t \in {x \in Range(kbody_terms) :
            pair_groups(Sorted(split_comma(x))) # <<>>} |->
     pair_groups(Sorted(split_comma(t)))]

\* kbody_terms = None
NoKbodyTerms == << <<-1>> >>

\* the offsets of kbody Transformer.__init__: a term outside the mapping takes
\* one row, a term of the mapping one row per selection
kb_offsets(kbody_terms, mapping) ==
  cumsum0([i \in 1..Len(kbody_terms) |->
             IF kbody_terms[i] \in DOMAIN mapping
             THEN (IF Len(mapping[kbody_terms[i]]) = 0 THEN 0
                   ELSE Len(mapping[kbody_terms[i]][1]))
             ELSE 1])

\* kbody Transformer.__init__: the constructed object, or the error it raises
kb_Transformer(species, many_body_k, kbody_terms_arg) ==
  LET kbody_terms == IF kbody_terms_arg = NoKbodyTerms
                     THEN kb_kbody_terms(species, many_body_k)
                     ELSE kbody_terms_arg
      mapping == _gen_dist2inputs_mapping(species, kbody_terms)
      offsets == kb_offsets(kbody_terms, mapping)
  IN IF kb_mapping_raises(species, kbody_terms) THEN [err |-> "KeyError"]
     ELSE [err |-> "none",
           many_body_k |-> many_body_k,
           kbody_terms |-> kbody_terms,
           species |-> species,
           kbody_offsets |-> offsets,
           mapping |-> mapping,
           selections |-> kb_selections(species, kbody_terms),
           split_dims |-> [i \in 1..Len(kbody_terms) |->
                             offsets[i + 1] - offsets[i]],
           cnk |-> comb(Len(species), many_body_k),
           ck2 |-> comb(many_body_k, 2),
           sorting_indices |-> _gen_sorting_indices(kbody_terms),
           lmat |-> _get_pyykko_bonds_matrix(species, 15),
           total_dim |-> offsets[Len(offsets)]]

\* _exponential(d, s) = np.exp(-d / s)
_exponential(d, s) == exp_neg(fdiv(d, s))

\* rr of kbody transform for one structure: the scaled flattened distances,
\* numpy broadcasting a single distance or a single scaling length
kb_rr(c, coords) ==
  LET n == Len(coords)
      m == Len(c.species)
      size == Max(n * n, m * m)
  IN [p \in 1..size |->
        LET q == IF n = 1 THEN 1 ELSE p
        IN _exponential(distance(coords[((q - 1) \div n) + 1],
                                 coords[((q - 1) % n) + 1]),
                        c.lmat[IF m = 1 THEN 1 ELSE p])]

\* the rows of one structure after the assignment loop of kbody transform:
\* terms outside the mapping are skipped, their rows stay 0
kb_assign(c, rr) ==
  [r \in 1..c.total_dim |->
     [k \in 1..c.ck2 |->
        LET owner == {j \in 1..Len(c.kbody_terms) :
                        /\ c.kbody_terms[j] \in DOMAIN c.mapping
                        /\ r - 1 >= c.kbody_offsets[j]
                        /\ r - 1 < c.kbody_offsets[j + 1]}
        IN IF owner = {} THEN 0
           ELSE LET j == CHOOSE x \in owner : TRUE
                IN rr[c.mapping[c.kbody_terms[j]][k][r - c.kbody_offsets[j]]
                      + 1]]]

\* the sorting loop of kbody transform on the rows of one structure
kb_sort(c, rows) ==
  [r \in 1..Len(rows) |->
     LET owner == {j \in 1..Len(c.kbody_terms) :
                     /\ c.kbody_terms[j] \in DOMAIN c.mapping
                     /\ c.kbody_terms[j] \in DOMAIN c.sorting_indices
                     /\ r - 1 >= c.kbody_offsets[j]
                     /\ r - 1 < c.kbody_offsets[j + 1]}
     IN IF owner = {} THEN rows[r]
        ELSE sort_groups(rows[r],
               c.sorting_indices[c.kbody_terms[CHOOSE x \in owner : TRUE]])]

\* the energies handed over when energies is None
NoEnergies == <<"None">>

\* mapping[term][k] is out of range for some k < ck2: the term has fewer
\* symbols than many_body_k
kb_short_term(c, j) ==
  /\ c.kbody_terms[j] \in DOMAIN c.mapping
  /\ Len(c.mapping[c.kbody_terms[j]]) < c.ck2

\* kbody Transformer.transform(coordinates, energies)
kb_transform(c, coordinates, energies) ==
  IF \E i \in 1..Len(coordinates) :
        /\ Len(coordinates[i]) # Len(c.species)
        /\ Len(c.species) # 1
        /\ Len(coordinates[i]) # 1
  THEN [err |-> "ValueError"]
  ELSE IF coordinates # <<>> /\ \E j \in 1..Len(c.kbody_terms) : kb_short_term(c, j)
  THEN [err |-> "IndexError"]
  ELSE [err |-> "none",
        features |-> [i \in 1..Len(coordinates) |->
                        kb_sort(c, kb_assign(c, kb_rr(c, coordinates[i])))],
        targets |-> IF energies = NoEnergies THEN NoEnergies
                    ELSE [i \in 1..Len(energies) |-> 0 - energies[i]]]

\* kbody MultiTransformer.__init__
kb_MultiTransformer(atom_types, many_body_k, max_appears) ==
  LET types == SortedSet(Range(atom_types))
      species == Concat([i \in 1..Len(types) |->
                           repeat(types[i],
                                  Min(dict_get(max_appears, types[i],
                                               many_body_k), many_body_k))])
  IN [kind |-> "kbody.MultiTransformer",
      many_body_k |-> many_body_k,
      atom_types |-> Range(atom_types),
      kbody_terms |-> kb_kbody_terms(species, many_body_k)]

\* the shape checks of kbody MultiTransformer.transform on coords
kb_shapes_mismatch(species, coords) ==
  \/ (coords.ndim = 2 /\ Len(coords.data) # Len(species))
  \/ (coords.ndim = 3 /\ Len(coords.data[1]) # Len(species))

\* kbody MultiTransformer.transform(species, coords, energies); coords.ndim is
\* 2 for one structure and 3 for a list of structures
kb_mt_transform(self, cache, species, coords, energies, new_id) ==
  LET formula == get_formula(species)
      hit == formula \in DOMAIN cache
      new == kb_Transformer(species, self.many_body_k, self.kbody_terms)
  IN IF kb_shapes_mismatch(species, coords)
     THEN [err |-> "ValueError", transformers |-> cache, built |-> 0]
     ELSE IF ~ hit /\ new.err # "none"
     THEN [err |-> new.err, transformers |-> cache, built |-> 0]
     ELSE LET clf == IF hit THEN cache[formula]
                     ELSE [id |-> new_id, clf |-> new]
              res == kb_transform(clf.clf,
                                  IF coords.ndim = 2 THEN <<coords.data>>
                                  ELSE coords.data, energies)
          IN [err |-> res.err, formula |-> formula, id |-> clf.id,
              transformers |-> (formula :> clf) @@ cache,
              built |-> IF hit THEN 0 ELSE 1,
              res |-> res, split_dims |-> clf.clf.split_dims]

(***************************************************************************)
(* The record writers.  A path is <<stem, extension>>; fs maps every path  *)
(* that exists to the file's content: who wrote it (gen), its records and  *)
(* whether its writer was closed.  Rational numbers are <<numerator,       *)
(* denominator>>.                                                          *)
(***************************************************************************)
\* a path argument that is None
NoFile == <<"None">>

\* a data file and its sidecar left by an earlier run
StaleFile == [gen |-> "old", closed |-> TRUE, records |-> <<>>]

\* the file tf.python_io.TFRecordWriter(filename) creates or truncates
NewFile == [gen |-> "new", closed |-> FALSE, records |-> <<>>]

\* join(dirname(filename), "{}.json".format(splitext(basename(filename))[0]))
sidecar_path(filename) == <<filename[1], "json">>

\* d without the key k
dict_del(d, k) == [x \in DOMAIN d \ {k} |-> d[x]]

\* a variant of the handler that leaves the file in place
remove_if_isfile_kept(files, filename) == files

\* if isfile(filename): remove(filename)
remove_if_isfile(files, filename) ==
  IF filename \in DOMAIN files THEN dict_del(files, filename) ELSE files

\* writer.write(record) on the open file
fs_write(files, filename, record) ==
  [files EXCEPT ![filename].records = Append(@, record)]

\* the writer leaves its with block
fs_close(files, filename) == [files EXCEPT ![filename].closed = TRUE]

\* the terms at which the assignment loop of kbody _transform_and_save raises:
\* it does not skip the terms that are excluded from the mapping (KeyError),
\* and a term with fewer symbols than many_body_k has too few rows (IndexError)
kb_save_raising(c) ==
  {j \in 1..Len(c.kbody_terms) :
     c.kbody_terms[j] \notin DOMAIN c.mapping \/ kb_short_term(c, j)}

\* the example kbody _transform_and_save writes for structure i (0-based), or
\* the error it raises before writer.write
kb_save_example(c, coordinates, energies, i) ==
  IF /\ Len(coordinates[i + 1]) # Len(c.species)
     /\ Len(c.species) # 1
     /\ Len(coordinates[i + 1]) # 1
  THEN [err |-> "ValueError"]
  ELSE IF kb_save_raising(c) # {}
  THEN [err |-> IF kb_short_term(c, CHOOSE j \in kb_save_raising(c) :
                                      \A m \in kb_save_raising(c) : j <= m)
                THEN "IndexError" ELSE "KeyError"]
  ELSE IF i + 1 > Len(energies) THEN [err |-> "IndexError"]
  ELSE [err |-> "none",
        features |-> kb_sort(c, kb_assign(c, kb_rr(c, coordinates[i + 1]))),
        energy |-> 0 - energies[i + 1]]

\* the JSON kbody _save_auxiliary_for_file dumps
kb_auxiliary(c, indices) ==
  [gen |-> "new", closed |-> TRUE,
   records |-> <<[kbody_offsets |-> c.kbody_offsets,
                  kbody_terms |-> c.kbody_terms,
                  kbody_selections |-> c.selections,
                  split_dims |-> c.split_dims,
                  inverse_indices |-> indices]>>]

RECURSIVE det(_)
\* the determinant of a square matrix given by its rows
det(m) ==
  IF Len(m) = 0 THEN 1
  ELSE LET minor(j) == [r \in 1..(Len(m) - 1) |->
                          [c \in 1..(Len(m) - 1) |->
                             m[r + 1][IF c < j THEN c ELSE c + 1]]]
           term(j) == (IF j % 2 = 1 THEN 1 ELSE -1) * m[1][j] * det(minor(j))
           F[j \in 0..Len(m)] == IF j = 0 THEN 0 ELSE F[j - 1] + term(j)
       IN F[Len(m)]

\* the ascending lists of r elements of 1..n
index_choices(n, r) == Range(combinations([i \in 1..n |-> i], r))

\* np.linalg.matrix_rank(coef) of an integer matrix with ncols columns: the
\* largest order of a square submatrix with a determinant other than 0
matrix_rank(coef, ncols) ==
  LET has(r) == \E rows \in index_choices(Len(coef), r) :
                   \E cols \in index_choices(ncols, r) :
                      det([i \in 1..r |-> [j \in 1..r |->
                             coef[rows[i]][cols[j]]]]) # 0
  IN CHOOSE r \in 0..Min(Len(coef), ncols) :
        /\ r = 0 \/ has(r)
        /\ \A q \in (r + 1)..Min(Len(coef), ncols) : ~ has(q)

\* sum_i a[i][p] * b[i][q] over the rows of two matrices
col_dot(a, p, b, q) == Sum([i \in 1..Len(a) |-> a[i][p] * b[i][q]])

\* np.negative(np.dot(np.linalg.pinv(coef), y)) for a coef of rank <= 2 whose
\* columns other than the first two are 0
neg_pinv_dot(coef, y, ncols, rank) ==
  LET ycol == [i \in 1..Len(y) |-> <<y[i]>>]
      n11 == col_dot(coef, 1, coef, 1)
      n12 == col_dot(coef, 1, coef, 2)
      n22 == col_dot(coef, 2, coef, 2)
      r1 == col_dot(coef, 1, ycol, 1)
      r2 == col_dot(coef, 2, ycol, 1)
  IN [j \in 1..ncols |->
        IF rank = 0 \/ j > 2 THEN <<0, 1>>
        ELSE IF rank = 1
        THEN <<0 - (IF j = 1 THEN r1 ELSE r2), n11 + n22>>
        ELSE <<0 - (IF j = 1 THEN r1 * n22 - r2 * n12
                    ELSE r2 * n11 - r1 * n12),
               n11 * n22 - n12 * n12>>]

RECURSIVE frac_sum(_)
\* the sum of a list of rational numbers
frac_sum(fs) ==
  IF fs = <<>> THEN <<0, 1>>
  ELSE LET rest == frac_sum(Tail(fs))
       IN <<Head(fs)[1] * rest[2] + rest[1] * Head(fs)[2],
            Head(fs)[2] * rest[2]>>

\* np.negative(np.mean(y / coef.sum(axis=1)))
neg_mean_ratio(coef, y) ==
  LET total == frac_sum([i \in 1..Len(y) |-> <<y[i], Sum(coef[i])>>])
  IN <<0 - total[1], total[2] * Len(y)>>

\* the number of entries of x[:stop] for a list x of n entries
slice_stop(n, stop) == IF stop >= 0 THEN Min(stop, n) ELSE Max(n + stop, 0)

\* _compute_lr_weights(coef, y, num_real_atom_types) for the matrix rank `rank`
lr_weights_of_rank(coef, y, ncols, num_real_atom_types, rank) ==
  IF num_real_atom_types - rank = 0
  THEN [err |-> "none", x |-> neg_pinv_dot(coef, y, ncols, rank)]
  ELSE IF rank = 1
  THEN [err |-> "none",
        x |-> [j \in 1..ncols |->
                 IF j <= slice_stop(ncols, num_real_atom_types)
                 THEN neg_mean_ratio(coef, y)
                 ELSE <<0, 1>>]]
  ELSE [err |-> "ValueError"]

\* _compute_lr_weights(coef, y, num_real_atom_types), coef having ncols columns
_compute_lr_weights(coef, y, ncols, num_real_atom_types) ==
  lr_weights_of_rank(coef, y, ncols, num_real_atom_types,
                     matrix_rank(coef, ncols))

\* _get_num_force_entries(n, k_max); comb(n, k) * comb(k, 2) * 2 / n is integral
_get_num_force_entries(n, k_max) ==
  Sum([m \in 1..(k_max - 1) |->
         (comb(n, m + 1) * comb(m + 1, 2) * 2) \div n])

(***************************************************************************)
(* kcnn: the force indices of Transformer._transform_indexing_matrix and   *)
(* the sizes Transformer.__init__ derives for them.                        *)
(***************************************************************************)
\* utils.compute_n_from_cnk(cnk, k): the n with C(n, k) = cnk, -1 where no
\* n >= k has C(n, k) = cnk
compute_n_from_cnk(cnk, k) ==
  LET ns == {n \in k..(k + cnk) : comb(n, k) = cnk}
  IN IF ns = {} THEN -1 ELSE CHOOSE n \in ns : TRUE

\* n, _num_real, _num_f_components and _num_entries of Transformer.__init__
force_sizes(clf) ==
  LET n == compute_n_from_cnk(clf.offsets[Len(clf.offsets)], clf.k_max)
      num_real == n - clf.num_ghosts
  IN [n |-> n, num_real |-> num_real, num_f_components |-> 3 * num_real,
      num_entries |-> IF n > clf.num_ghosts
                      THEN _get_num_force_entries(num_real, clf.k_max) ELSE 0]

\* a variant that does not skip the pairs with a ghost
force_cells_ghosts(clf, indexing) ==
  LET cell(p) == [i |-> (p - 1) \div clf.ck2, j |-> (p - 1) % clf.ck2,
                  a |-> indexing[((p - 1) \div clf.ck2) + 1]
                                [((p - 1) % clf.ck2) + 1][1],
                  b |-> indexing[((p - 1) \div clf.ck2) + 1]
                                [((p - 1) % clf.ck2) + 1][2]]
      written(c) == \A m \in 1..clf.ck2 : /\ indexing[c.i + 1][m][1] >= 0
                                         /\ indexing[c.i + 1][m][2] >= 0
  IN SelectSeq([p \in 1..(Len(indexing) * clf.ck2) |-> cell(p)], written)

\* the cells (i, j) for which the loops of _transform_indexing_matrix write,
\* in the order of the loops: indexing[i].min() >= 0 and both atoms of the
\* pair are below imax = len(self.species)
force_cells(clf, indexing) ==
  LET imax == Len(clf.species) - clf.num_ghosts
      cell(p) == [i |-> (p - 1) \div clf.ck2, j |-> (p - 1) % clf.ck2,
                  a |-> indexing[((p - 1) \div clf.ck2) + 1]
                                [((p - 1) % clf.ck2) + 1][1],
                  b |-> indexing[((p - 1) \div clf.ck2) + 1]
                                [((p - 1) % clf.ck2) + 1][2]]
      written(c) == /\ \A m \in 1..clf.ck2 : /\ indexing[c.i + 1][m][1] >= 0
                                            /\ indexing[c.i + 1][m][2] >= 0
                    /\ c.a < imax
                    /\ c.b < imax
  IN SelectSeq([p \in 1..(Len(indexing) * clf.ck2) |-> cell(p)], written)

\* the cells of force_cells that move the cursor loc[x] of atom x
cells_of_atom(cells, x) == SelectSeq(cells, LAMBDA c : c.a = x \/ c.b = x)

\* a variant that leaves out the offset of the second atom
force_entry_no_half(c, x, axis, ck2) == 6 * ck2 * c.i + axis * ck2 + c.j + 1

\* the value written for a cell into the row of atom x and axis: position is
\* 6 * ck2 * i, zero is 0 for the first atom of the pair and half = 3 * ck2
\* for the second, start is 1
force_entry(c, x, axis, ck2) ==
  6 * ck2 * c.i + axis * ck2 + c.j + (IF c.a = x THEN 0 ELSE 3 * ck2) + 1

\* positions[a * 3 + axis, loc[a]] is out of range for some written cell
force_index_fails(clf, sizes, cells) ==
  \E m \in 1..Len(cells) :
     \E x \in {cells[m].a, cells[m].b} :
        \/ x >= sizes.num_real
        \/ Len(cells_of_atom(SubSeq(cells, 1, m), x)) > sizes.num_entries

\* Transformer._transform_indexing_matrix(indexing) with atomic forces on: the
\* array positions, or the error.  The sizes are defined where
\* compute_n_from_cnk finds an n.
_transform_indexing_matrix(clf, indexing) ==
  LET sizes == force_sizes(clf)
      cells == force_cells(clf, indexing)
  IN IF sizes.num_real < 1 THEN [err |-> "NoSizes"]
     ELSE IF force_index_fails(clf, sizes, cells) THEN [err |-> "IndexError"]
     ELSE [err |-> "none",
           positions |->
             [row \in 1..sizes.num_f_components |->
                LET mine == cells_of_atom(cells, (row - 1) \div 3)
                IN [slot \in 1..sizes.num_entries |->
                      IF slot > Len(mine) THEN 0
                      ELSE force_entry(mine[slot], (row - 1) \div 3,
                                       (row - 1) % 3, clf.ck2)]]]

\* the third value of Transformer.transform(atoms) with atomic forces on
transform_indexing(clf, res) ==
  IF res.err # "none" THEN [err |-> res.err]
  ELSE _transform_indexing_matrix(clf,
         [r \in 1..Len(res.rows) |-> res.rows[r].indexing])

\* buffer[i] = value for a value of shape (rows, cols) and a buffer whose
\* entries have the shape (brows, bcols): numpy broadcasts an axis of length 1
broadcast_fits(rows, cols, brows, bcols) ==
  /\ rows = brows \/ rows = 1
  /\ cols = bcols \/ cols = 1

\* the loop body of MultiTransformer.transform_trajectory with atomic forces
\* on, for one structure: clf.transform(atoms, features=features[i]) returned
\* res and indexing; coef has the shape of features, coef_ the shape of dr,
\* the indexing buffer has 3 * len(species) rows and
\* nrows * ncols * 6 // (3 * len(species)) columns
trajectory_entry(clf, species, res, indexing) ==
  IF res.err # "none" THEN [err |-> res.err]
  ELSE IF indexing.err # "none" THEN [err |-> indexing.err]
  ELSE IF ~ broadcast_fits(clf.real_dim, 6 * clf.ck2, clf.real_dim, clf.ck2)
  THEN [err |-> "ValueError"]
  ELSE IF ~ broadcast_fits(Len(indexing.positions),
                           Len(indexing.positions[1]), 3 * Len(species),
                           (clf.real_dim * clf.ck2 * 6)
                             \div (3 * Len(species)))
  THEN [err |-> "ValueError"]
  ELSE [err |-> "none", rows |-> res.rows, positions |-> indexing.positions]

\* MultiTransformer.transform_trajectory with atomic forces on, after the
\* species were accepted and _get_transformer returned clf: the entries of the
\* sample or the error of the first structure that raises
trajectory_forces(clf, species, frames) ==
  LET entries == [i \in 1..Len(frames) |->
                    trajectory_entry(clf, species,
                      transform_forces(clf, frames[i]),
                      transform_indexing(clf,
                        transform_forces(clf, frames[i])))]
      failed == {i \in 1..Len(frames) : entries[i].err # "none"}
  IN IF failed # {}
     THEN [err |-> entries[CHOOSE i \in failed :
                             \A j \in failed : i <= j].err]
     ELSE [err |-> "none", entries |-> entries,
           binary_weights |-> [i \in 1..Len(frames) |-> clf.binary_weights]]

\* the example FixedLenMultiTransformer._transform_and_save writes for a sample
fl_example(sample, y_true) ==
  [energy |-> 0 - y_true, features |-> sample.features,
   occurs |-> sample.occurs, weights |-> sample.binary_weights,
   loss_weight |-> 1]

\* the JSON FixedLenMultiTransformer._save_auxiliary_for_file dumps
fl_auxiliary(self, max_size, lookup_indices, initial_1body_weights) ==
  [gen |-> "new", closed |-> TRUE,
   records |->
     <<[kbody_terms |-> self.kbody_terms,
        split_dims |-> self.split_dims,
        shape |-> <<self.total_dim, comb(self.k_max, 2)>>,
        lookup_indices |-> lookup_indices,
        num_atom_types |-> Len(self.species),
        species |-> self.species,
        include_all_k |-> self.include_all_k,
        periodic |-> FALSE,
        k_max |-> self.k_max,
        max_occurs |-> [e \in {x \in DOMAIN self.max_occurs :
                                 /\ self.max_occurs[x] # Inf
                                 /\ self.max_occurs[x] < self.k_max} |->
                          self.max_occurs[e]],
        norm_order |-> self.norm_order,
        initial_one_body_weights |-> initial_1body_weights,
        atomic_forces_enabled |-> self.atomic_forces,
        indexing_shape |-> <<max_size * 3,
                             _get_num_force_entries(max_size, self.k_max)>>]>>]

(***************************************************************************)
(* State.                                                                  *)
(*   args, clf, atoms, out : one Transformer used directly                 *)
(*   mt, transformers, builds, calls, last : one dispatcher and its cache  *)
(*   pc, loc : two concurrent callers of a dispatcher                      *)
(*   fs, wr  : the record writers and the files they leave                 *)
(***************************************************************************)
VARIABLES args, clf, atoms, out, mt, transformers, builds, calls, last,
          pc, loc, fs, wr

tVars == <<args, clf, atoms, out>>

dVars == <<mt, transformers, builds, calls, last>>

cVars == <<pc, loc>>

wVars == <<fs, wr>>

vars == <<args, clf, atoms, out, mt, transformers, builds, calls, last,
          pc, loc, fs, wr>>

\* the values of the variables a specification does not use
tIdle ==
  /\ args = <<>>
  /\ clf = [err |-> "unbuilt"]
  /\ atoms = <<>>
  /\ out = [op |-> "init"]

\* the empty dict
EmptyDict == [x \in {} |-> 0]

dIdle ==
  /\ mt = [kind |-> "none"]
  /\ transformers = EmptyDict
  /\ builds = 0
  /\ calls = 0
  /\ last = [op |-> "init"]

cIdle ==
  /\ pc = <<>>
  /\ loc = <<>>

wIdle ==
  /\ fs = EmptyDict
  /\ wr = [pc |-> "idle"]

(***************************************************************************)
(* Spec: one dispatcher object and a sequence of calls on it.              *)
(***************************************************************************)
\* the number of columns of the y_kbody handed to compute_atomic_energies
YCols == 24

\* the dispatcher objects that are explored
Dispatchers ==
  {MultiTransformer(<<SymC, SymH>>, k_max, (SymH :> 1), 1, include_all_k) :
     k_max \in 2..MaxK, include_all_k \in BOOLEAN}
  \cup
  {FixedLenMultiTransformer((SymC :> 2) @@ (SymH :> 1), k_max, 1,
                            include_all_k) :
     k_max \in 2..MaxK, include_all_k \in BOOLEAN}
  \cup
  {kb_MultiTransformer(<<SymC, SymH>>, many_body_k, (SymC :> 2)) :
     many_body_k \in 2..MaxK}

\* the species lists of the structures handed to a dispatcher
Structures ==
  {<<SymC, SymH>>, <<SymH, SymC>>, <<SymC, SymC, SymH>>,
   <<SymC, SymC, SymC>>, <<SymC, GHOST>>, <<SymN>>}

\* the points the structures are placed on
DPoints == <<(<<0, 0, 0>>), (<<1, 0, 0>>), (<<0, 2, 0>>), (<<0, 0, 3>>)>>

\* the positions of a structure of n atoms, variant v
geom(n, v) == [i \in 1..n |-> DPoints[((i + v - 2) % Len(DPoints)) + 1]]

\* the one-body energies handed to compute_atomic_energies
OneBody == (SymC :> 1) @@ (SymH :> 2) @@ (SymY :> 3)

IsKcnn == mt.kind \in {"MultiTransformer", "FixedLenMultiTransformer"}

\* the formula under which a dispatcher caches the Transformer of a species list
formula_of(self, species) ==
  IF self.kind = "kbody.MultiTransformer" THEN get_formula(species)
  ELSE get_formula(species \o repeat(GHOST, self.num_ghosts))

\* what a call leaves in `last`
outcome(op, species, r) ==
  [op |-> op, species |-> species, err |-> r.err,
   id |-> IF "id" \in DOMAIN r THEN r.id ELSE 0,
   out |-> IF "sample" \in DOMAIN r THEN r.sample
           ELSE IF "y_atomic" \in DOMAIN r THEN r.y_atomic
           ELSE IF "res" \in DOMAIN r THEN <<r.res, r.split_dims>>
           ELSE <<>>]

DInit ==
  /\ tIdle
  /\ cIdle
  /\ wIdle
  /\ mt \in Dispatchers
  /\ transformers = EmptyDict
  /\ builds = 0
  /\ calls = 0
  /\ last = [op |-> "init"]

\* the state a call leaves behind
Called(op, species, r) ==
  /\ transformers' = r.transformers
  /\ builds' = builds + r.built
  /\ calls' = calls + 1
  /\ last' = outcome(op, species, r)
  /\ UNCHANGED <<mt, tVars, cVars, wVars>>

\* sample = mt.transform(atoms)
DTransform(species) ==
  /\ IsKcnn
  /\ calls < MaxCalls
  /\ Called("transform", species,
            mt_transform(mt, transformers, species, geom(Len(species), 1),
                         builds + 1))

\* sample = mt.transform_trajectory(trajectory) for n structures of one species
\* list
DTransformTrajectory(species, n) ==
  /\ IsKcnn
  /\ calls < MaxCalls
  /\ Called("transform_trajectory", IF n = 0 THEN <<>> ELSE species,
            mt_transform_trajectory(mt, transformers, species,
                                    [i \in 1..n |-> geom(Len(species), i)],
                                    builds + 1))

\* y_atomic = mt.compute_atomic_energies(species, y_kbody, y_atomic_1body)
DComputeAtomicEnergies(species) ==
  /\ IsKcnn
  /\ calls < MaxCalls
  /\ Called("compute_atomic_energies", species,
            mt_compute_atomic_energies(mt, transformers, species,
                                       <<[r \in 1..YCols |-> r]>>, OneBody,
                                       builds + 1))

\* features, split_dims, targets = mt.transform(species, coords, energies) of
\* the kbody dispatcher; extra is the number of surplus rows of coords
DKbTransform(species, ndim, extra) ==
  /\ mt.kind = "kbody.MultiTransformer"
  /\ calls < MaxCalls
  /\ Called("kbody.transform", species,
            kb_mt_transform(mt, transformers, species,
              [ndim |-> ndim,
               data |-> IF ndim = 2 THEN geom(Len(species) + extra, 1)
                        ELSE [i \in 1..MaxExamples |->
                                geom(Len(species) + extra, i)]],
              IF ndim = 2 THEN NoEnergies ELSE [i \in 1..MaxExamples |-> i],
              builds + 1))

Next ==
  \/ \E species \in Structures : DTransform(species)
  \/ \E species \in Structures : \E n \in {0, MaxExamples} :
        DTransformTrajectory(species, n)
  \/ \E species \in Structures : DComputeAtomicEnergies(species)
  \/ \E species \in Structures : \E ndim \in {2, 3} : \E extra \in {0, 1} :
        DKbTransform(species, ndim, extra)

Spec == DInit /\ [][Next]_vars

(***************************************************************************)
(* SpecE: the dispatchers of the atom types C and Y; the symbol Y sorts    *)
(* behind the ghost symbol in a k-body term.                               *)
(***************************************************************************)
\* the dispatcher objects that are explored
EDispatchers ==
  {MultiTransformer(<<SymC, SymY>>, k_max, (SymY :> 1), 1, include_all_k) :
     k_max \in 2..MaxK, include_all_k \in BOOLEAN}
  \cup
  {FixedLenMultiTransformer((SymC :> 2) @@ (SymY :> 1), k_max, 1,
                            include_all_k) :
     k_max \in 2..MaxK, include_all_k \in BOOLEAN}

\* the species lists of the structures handed to a dispatcher
EStructures ==
  {<<SymC, SymY>>, <<SymY, SymC>>, <<SymC, SymC, SymY>>, <<SymC, SymC>>,
   <<SymY>>, <<SymC, SymC, SymC>>}

EInit ==
  /\ tIdle
  /\ cIdle
  /\ wIdle
  /\ mt \in EDispatchers
  /\ transformers = EmptyDict
  /\ builds = 0
  /\ calls = 0
  /\ last = [op |-> "init"]

ENext ==
  \/ \E species \in EStructures : DTransform(species)
  \/ \E species \in EStructures : DComputeAtomicEnergies(species)

SpecE == EInit /\ [][ENext]_vars


(***************************************************************************)
(* SpecConc: two callers share one dispatcher.  Python may switch threads  *)
(* between any two statements, so each caller advances one statement of    *)
(* the dispatch at a time: pc[c] is the statement caller c is at and       *)
(* loc[c] holds its local variables.                                       *)
(***************************************************************************)
Callers == {1, 2}

\* the local variables of a caller that has not called yet; first records
\* whether the formula was absent from the cache when the caller entered
NoLocals == [species |-> <<>>, err |-> "none", first |-> FALSE]

\* the local variables of a caller that enters with a species list
Entered(species) ==
  [species |-> species, err |-> "none",
   first |-> formula_of(mt, species) \notin DOMAIN transformers]

CInit ==
  /\ tIdle
  /\ wIdle
  /\ mt \in Dispatchers
  /\ transformers = EmptyDict
  /\ builds = 0
  /\ calls = 0
  /\ last = [op |-> "init"]
  /\ pc = [c \in Callers |-> "idle"]
  /\ loc = [c \in Callers |-> NoLocals]

\* caller c moves to the statement at and its locals become l
Goto(c, at, l) ==
  /\ pc' = [pc EXCEPT ![c] = at]
  /\ loc' = [loc EXCEPT ![c] = l]
  /\ UNCHANGED <<mt, calls, last, tVars, wVars>>

\* caller c raises err
Raise(c, err) == Goto(c, "raised", [loc[c] EXCEPT !.err = err])

\* mt.transform(atoms) of kcnn is entered: accept_species
CCall(c, species) ==
  /\ IsKcnn
  /\ pc[c] = "idle"
  /\ IF accept_species(mt, species)
     THEN Goto(c, "construct", Entered(species))
     ELSE Goto(c, "raised", [Entered(species) EXCEPT !.err = "ValueError"])
  /\ UNCHANGED <<transformers, builds>>

\* _get_transformer evaluates the arguments of dict.get: Transformer(...)
CConstruct(c) ==
  /\ pc[c] = "construct"
  /\ LET new == new_transformer(mt, loc[c].species)
     IN IF new.err # "none"
        THEN Raise(c, new.err) /\ UNCHANGED builds
        ELSE /\ Goto(c, "get",
                     [species |-> loc[c].species, err |-> "none",
                      first |-> loc[c].first,
                      new |-> [id |-> builds + 1, clf |-> new]])
             /\ builds' = builds + 1
  /\ UNCHANGED transformers

\* clf = self._transformers.get(formula, new)
CGet(c) ==
  /\ pc[c] = "get"
  /\ Goto(c, "set",
          [species |-> loc[c].species, err |-> "none",
           first |-> loc[c].first,
           clf |-> cache_get(transformers, formula_of(mt, loc[c].species),
                             loc[c].new)])
  /\ UNCHANGED <<transformers, builds>>

\* self._transformers[formula] = clf; return clf
CSet(c) ==
  /\ pc[c] = "set"
  /\ transformers' =
       (formula_of(mt, loc[c].species) :> loc[c].clf) @@ transformers
  /\ Goto(c, "use", loc[c])
  /\ UNCHANGED builds

\* the rest of mt.transform: clf.transform(atoms) and the sample
CUse(c) ==
  /\ IsKcnn
  /\ pc[c] = "use"
  /\ LET r == transform_sample(mt, loc[c].species,
                [clf |-> loc[c].clf, formula |-> <<>>,
                 transformers |-> <<>>, built |-> 0],
                transform(loc[c].clf.clf, geom(Len(loc[c].species), 1),
                          zeros(loc[c].clf.clf.real_dim, loc[c].clf.clf.ck2)))
     IN IF r.err # "none" THEN Raise(c, r.err)
        ELSE Goto(c, "done",
                  [species |-> loc[c].species, err |-> "none",
                   first |-> loc[c].first,
                   clf |-> loc[c].clf, out |-> r.sample])
  /\ UNCHANGED <<transformers, builds>>

\* mt.transform(species, coords) of kbody is entered: the shape checks, then
\* clf = self._transformers.get(formula)
KCall(c, species, extra) ==
  /\ mt.kind = "kbody.MultiTransformer"
  /\ pc[c] = "idle"
  /\ IF kb_shapes_mismatch(species,
          [ndim |-> 2, data |-> geom(Len(species) + extra, 1)])
     THEN Goto(c, "raised", [Entered(species) EXCEPT !.err = "ValueError"])
     ELSE IF formula_of(mt, species) \in DOMAIN transformers
     THEN Goto(c, "use", [species |-> species, err |-> "none",
                          first |-> FALSE,
                          clf |-> transformers[formula_of(mt, species)]])
     ELSE Goto(c, "kconstruct", Entered(species))
  /\ UNCHANGED <<transformers, builds>>

\* clf = Transformer(species, many_body_k, kbody_terms)
KConstruct(c) ==
  /\ pc[c] = "kconstruct"
  /\ LET new == kb_Transformer(loc[c].species, mt.many_body_k, mt.kbody_terms)
     IN IF new.err # "none"
        THEN Raise(c, new.err) /\ UNCHANGED builds
        ELSE /\ Goto(c, "set",
                     [species |-> loc[c].species, err |-> "none",
                      first |-> loc[c].first,
                      clf |-> [id |-> builds + 1, clf |-> new]])
             /\ builds' = builds + 1
  /\ UNCHANGED transformers

\* features, targets = clf.transform(coords, energies)
KUse(c) ==
  /\ mt.kind = "kbody.MultiTransformer"
  /\ pc[c] = "use"
  /\ LET r == kb_transform(loc[c].clf.clf,
                           <<geom(Len(loc[c].species), 1)>>, NoEnergies)
     IN IF r.err # "none" THEN Raise(c, r.err)
        ELSE Goto(c, "done",
                  [species |-> loc[c].species, err |-> "none",
                   first |-> loc[c].first,
                   clf |-> loc[c].clf,
                   out |-> <<r, loc[c].clf.clf.split_dims>>])
  /\ UNCHANGED <<transformers, builds>>

CNext ==
  \E c \in Callers :
     \/ \E species \in Structures : CCall(c, species)
     \/ CConstruct(c)
     \/ CGet(c)
     \/ CSet(c)
     \/ CUse(c)
     \/ \E species \in Structures : \E extra \in {0, 1} :
           KCall(c, species, extra)
     \/ KConstruct(c)
     \/ KUse(c)

SpecConc == CInit /\ [][CNext]_vars

(***************************************************************************)
(* SpecW: one call of a record writer, statement by statement, with the    *)
(* faults of the file system: opening a file or writing to it may fail     *)
(* with an IOError.                                                        *)
(***************************************************************************)
\* the kbody Transformers whose transform_and_save is explored
KbWriters ==
  {kb_Transformer(species, many_body_k,
                  IF given
                  THEN kb_MultiTransformer(<<SymC, SymH>>, many_body_k,
                                           (SymC :> 2)).kbody_terms
                  ELSE NoKbodyTerms) :
     species \in {<<SymC, SymC, SymH>>, <<SymC, SymH>>},
     many_body_k \in 2..MaxK,
     given \in BOOLEAN}

\* the FixedLenMultiTransformers whose transform_and_save is explored
FlWriters ==
  {FixedLenMultiTransformer((SymC :> 2) @@ (SymH :> 1), k_max, 1,
                            include_all_k) :
     k_max \in 2..MaxK, include_all_k \in BOOLEAN}

\* the species lists of the examples of a database
WStructures == {<<SymC, SymH>>, <<SymC, SymC, SymH>>, <<SymC, SymC, SymC>>}

\* the lists of at most n examples
ExampleLists(n) == UNION {[1..m -> WStructures] : m \in 0..n}

KbData == <<"data", "tfrecords">>

TestFile == <<"test", "tfrecords">>

TrainFile == <<"train", "tfrecords">>

\* the files an earlier run left behind
StaleFs ==
  [f \in {KbData, TestFile, TrainFile, sidecar_path(KbData),
          sidecar_path(TestFile), sidecar_path(TrainFile)} |-> StaleFile]

\* the total energy of example i (1-based) of a list
energy_of(i) == 0 - (10 * i + 1)

\* the fields of wr a writer does not use
NoWriter ==
  [pc |-> "idle", kind |-> "none", err |-> "none", stage |-> "none",
   filename |-> NoFile, coordinates |-> <<>>, energies |-> <<>>,
   test |-> <<>>, train |-> <<>>, test_file |-> NoFile, train_file |-> NoFile,
   phase |-> "none", examples |-> <<>>, i |-> 0, lr |-> <<>>, b |-> <<>>,
   weights |-> <<>>, max_size |-> 0]

\* clf.transform_and_save(coordinates, energies, filename) is about to start
KbWInit ==
  /\ cIdle
  /\ mt = [kind |-> "none"]
  /\ transformers = EmptyDict
  /\ builds = 0
  /\ calls = 0
  /\ last = [op |-> "init"]
  /\ args = <<>>
  /\ atoms = <<>>
  /\ out = [op |-> "init"]
  /\ clf \in {c \in KbWriters : c.err = "none"}
  /\ fs \in {EmptyDict, StaleFs}
  /\ \E n \in 0..MaxExamples : \E short \in {0, 1} :
        /\ short <= n
        /\ wr = [NoWriter EXCEPT
                   !.pc = "open", !.kind = "kbody", !.filename = KbData,
                   !.coordinates = [i \in 1..n |-> geom(Len(clf.species), i)],
                   !.energies = [i \in 1..(n - short) |-> energy_of(i)]]

\* mt.transform_and_save(database, train_file, test_file) is about to start
FlWInit ==
  /\ cIdle
  /\ tIdle
  /\ mt \in FlWriters
  /\ transformers = EmptyDict
  /\ builds = 0
  /\ calls = 0
  /\ last = [op |-> "init"]
  /\ fs \in {EmptyDict, StaleFs}
  /\ \E test \in ExampleLists(MaxExamples) :
        \E train \in ExampleLists(MaxExamples - Len(test)) :
           \E test_file \in {NoFile, TestFile} :
              \E train_file \in {NoFile, TrainFile} :
                 wr = [NoWriter EXCEPT
                         !.pc = "start", !.kind = "kcnn", !.test = test,
                         !.train = train, !.test_file = test_file,
                         !.train_file = train_file]

WInit == KbWInit \/ FlWInit

\* the writer raises err out of the statement it is at
WRaise(err, stage) == [wr EXCEPT !.pc = "raised", !.err = err, !.stage = stage]

\* kbody: with tf.python_io.TFRecordWriter(filename) as writer
KWOpen(ok) ==
  /\ wr.kind = "kbody"
  /\ wr.pc = "open"
  /\ IF ok
     THEN /\ fs' = (wr.filename :> NewFile) @@ fs
          /\ wr' = [wr EXCEPT !.pc = "loop"]
     ELSE /\ fs' = fs
          /\ wr' = [wr EXCEPT !.pc = "except", !.err = "IOError"]
  /\ UNCHANGED <<tVars, dVars, cVars>>

\* kbody: one pass of the loop over the examples of _transform_and_save
KWExample(ok) ==
  /\ wr.kind = "kbody"
  /\ wr.pc = "loop"
  /\ wr.i < Len(wr.coordinates)
  /\ LET e == kb_save_example(clf, wr.coordinates, wr.energies, wr.i)
     IN IF e.err # "none" \/ ~ ok
        THEN /\ fs' = fs_close(fs, wr.filename)
             /\ wr' = [wr EXCEPT !.pc = "except",
                         !.err = IF e.err # "none" THEN e.err ELSE "IOError"]
        ELSE /\ fs' = fs_write(fs, wr.filename,
                               [features |-> e.features, energy |-> e.energy])
             /\ wr' = [wr EXCEPT !.i = @ + 1]
  /\ UNCHANGED <<tVars, dVars, cVars>>

\* kbody: the loop is over, the with block is left
KWClose ==
  /\ wr.kind = "kbody"
  /\ wr.pc = "loop"
  /\ wr.i = Len(wr.coordinates)
  /\ fs' = fs_close(fs, wr.filename)
  /\ wr' = [wr EXCEPT !.pc = "else"]
  /\ UNCHANGED <<tVars, dVars, cVars>>

\* kbody: except Exception as excp: if isfile(filename): remove(filename);
\* raise excp
KWExcept ==
  /\ wr.kind = "kbody"
  /\ wr.pc = "except"
  /\ fs' = remove_if_isfile(fs, wr.filename)
  /\ wr' = WRaise(wr.err, "data")
  /\ UNCHANGED <<tVars, dVars, cVars>>

\* kbody: else: self._save_auxiliary_for_file(filename, indices)
KWSidecar(ok) ==
  /\ wr.kind = "kbody"
  /\ wr.pc = "else"
  /\ IF ok
     THEN /\ fs' = (sidecar_path(wr.filename) :> kb_auxiliary(clf, <<>>)) @@ fs
          /\ wr' = [wr EXCEPT !.pc = "returned"]
     ELSE /\ fs' = fs
          /\ wr' = WRaise("IOError", "auxiliary")
  /\ UNCHANGED <<tVars, dVars, cVars>>

\* the file and the examples of a phase of FixedLen transform_and_save
phase_file(w) == IF w.phase = "test" THEN w.test_file ELSE w.train_file

phase_examples(w) == IF w.phase = "test" THEN w.test ELSE w.train

\* the writer state after a phase: the train file follows the test file
after_phase(w) ==
  IF w.phase = "test" THEN [w EXCEPT !.pc = "file", !.phase = "train"]
  ELSE [w EXCEPT !.pc = "returned"]

\* kcnn: max_size = max(database.get_atoms_size_distribution())
FWStart ==
  /\ wr.kind = "kcnn"
  /\ wr.pc = "start"
  /\ wr' = IF wr.test \o wr.train = <<>> THEN WRaise("ValueError", "start")
           ELSE [wr EXCEPT
                   !.pc = "file", !.phase = "test",
                   !.max_size =
                     CHOOSE m \in {Len(x) : x \in Range(wr.test \o wr.train)} :
                        \A x \in Range(wr.test \o wr.train) : Len(x) <= m]
  /\ UNCHANGED <<fs, tVars, dVars, cVars>>

\* kcnn: if test_file / if train_file is false
FWSkip ==
  /\ wr.kind = "kcnn"
  /\ wr.pc = "file"
  /\ phase_file(wr) = NoFile
  /\ wr' = after_phase(wr)
  /\ UNCHANGED <<fs, tVars, dVars, cVars>>

\* kcnn: _transform_and_save is entered: with TFRecordWriter(filename), lr and b
FWOpen(ok) ==
  /\ wr.kind = "kcnn"
  /\ wr.pc = "file"
  /\ phase_file(wr) # NoFile
  /\ IF ok
     THEN /\ fs' = (phase_file(wr) :> NewFile) @@ fs
          /\ wr' = [wr EXCEPT
                      !.pc = "loop", !.filename = phase_file(wr),
                      !.examples = phase_examples(wr), !.i = 0,
                      !.lr = zeros(Len(phase_examples(wr)), mt.num_atom_types),
                      !.b = [i \in 1..Len(phase_examples(wr)) |-> 0]]
     ELSE /\ fs' = fs
          /\ wr' = [WRaise("IOError", "data") EXCEPT
                      !.filename = phase_file(wr)]
  /\ UNCHANGED <<tVars, dVars, cVars>>

\* the state FWExample leaves, r being what self.transform(atoms) returned
FWExampleDone(ok, r) ==
  /\ transformers' = r.transformers
  /\ builds' = builds + r.built
  /\ IF r.err # "none" \/ ~ ok
     THEN /\ fs' = fs_close(fs, wr.filename)
          /\ wr' = WRaise(IF r.err # "none" THEN r.err ELSE "IOError", "data")
     ELSE /\ fs' = fs_write(fs, wr.filename,
                            fl_example(r.sample, energy_of(wr.i + 1)))
          /\ wr' = [wr EXCEPT
                      !.i = @ + 1,
                      !.lr[wr.i + 1] =
                         occurs_of(mt, wr.examples[wr.i + 1]),
                      !.b[wr.i + 1] = energy_of(wr.i + 1)]

\* kcnn: one pass of the loop over the examples of _transform_and_save
FWExample(ok) ==
  /\ wr.kind = "kcnn"
  /\ wr.pc = "loop"
  /\ wr.i < Len(wr.examples)
  /\ FWExampleDone(ok,
       mt_transform(mt, transformers, wr.examples[wr.i + 1],
                    geom(Len(wr.examples[wr.i + 1]), 1), builds + 1))
  /\ UNCHANGED <<mt, calls, last, tVars, cVars>>

\* the state FWFinish leaves, w being what _compute_lr_weights returned
FWFinishDone(w) ==
  wr' = IF w.err # "none" THEN WRaise(w.err, "data")
        ELSE [wr EXCEPT !.pc = "aux", !.weights = w.x]

\* kcnn: the loop is over: return _compute_lr_weights(lr, b, ...) inside the
\* with block, which is left on the way out
FWFinish ==
  /\ wr.kind = "kcnn"
  /\ wr.pc = "loop"
  /\ wr.i = Len(wr.examples)
  /\ fs' = fs_close(fs, wr.filename)
  /\ FWFinishDone(_compute_lr_weights(wr.lr, wr.b, mt.num_atom_types,
                                      mt.num_atom_types - mt.num_ghosts))
  /\ UNCHANGED <<tVars, dVars, cVars>>

\* kcnn: self._save_auxiliary_for_file(...)
FWSidecar(ok) ==
  /\ wr.kind = "kcnn"
  /\ wr.pc = "aux"
  /\ IF ok
     THEN /\ fs' = (sidecar_path(wr.filename) :>
                      fl_auxiliary(mt, wr.max_size,
                                   [i \in 1..Len(wr.examples) |-> i],
                                   IF wr.phase = "train" THEN wr.weights
                                   ELSE <<>>)) @@ fs
          /\ wr' = after_phase(wr)
     ELSE /\ fs' = fs
          /\ wr' = WRaise("IOError", "auxiliary")
  /\ UNCHANGED <<tVars, dVars, cVars>>

WNext ==
  \/ \E ok \in BOOLEAN : KWOpen(ok)
  \/ \E ok \in BOOLEAN : KWExample(ok)
  \/ KWClose
  \/ KWExcept
  \/ \E ok \in BOOLEAN : KWSidecar(ok)
  \/ FWStart
  \/ FWSkip
  \/ \E ok \in BOOLEAN : FWOpen(ok)
  \/ \E ok \in BOOLEAN : FWExample(ok)
  \/ FWFinish
  \/ \E ok \in BOOLEAN : FWSidecar(ok)

SpecW == WInit /\ [][WNext]_vars

(***************************************************************************)
(* SpecT: a Transformer constructed and used directly.                     *)
(***************************************************************************)
\* the symbols of the species lists that are explored
Symbols == {SymC, SymH, GHOST}

\* the norm_order values that are explored
NormOrders == {0, 1, 2}

\* the atomic positions that are explored
Points == {<<0, 0, 0>>, <<1, 0, 0>>, <<0, 2, 0>>}

\* the species lists of 2 .. n symbols
SpeciesLists(n) == UNION {[1..m -> Symbols] : m \in 2..n}

\* exchange the entries i and j (0-based) of a list
exchange(s, i, j) ==
  [x \in 1..Len(s) |->
     IF x = i + 1 THEN s[j + 1] ELSE IF x = j + 1 THEN s[i + 1] ELSE s[x]]

TInit ==
  /\ tIdle
  /\ dIdle
  /\ cIdle
  /\ wIdle

\* clf = Transformer(species, k_max=k_max, norm_order=norm_order)
TConstruct(species, k_max, norm_order) ==
  /\ clf.err = "unbuilt"
  /\ args' = [species |-> species, k_max |-> k_max, norm_order |-> norm_order]
  /\ clf' = Transformer(species, k_max, <<>>, NoSplitDims, norm_order, FALSE)
  /\ UNCHANGED <<atoms, out, dVars, cVars, wVars>>

\* features, _, _ = clf.transform(atoms)
TTransform(positions) ==
  /\ clf.err = "none"
  /\ out.op = "init"
  /\ Len(positions) = Len(args.species) - clf.num_ghosts
  /\ atoms' = positions
  /\ out' = [op |-> "transform",
             res |-> transform(clf, positions, zeros(clf.real_dim, clf.ck2))]
  /\ UNCHANGED <<args, clf, dVars, cVars, wVars>>

\* the coordinates of the atoms i and j of one species are exchanged and the
\* structure is transformed again
TExchange(i, j) ==
  /\ clf.err = "none"
  /\ out.op = "transform"
  /\ i < j
  /\ j < Len(atoms)
  /\ args.species[i + 1] = args.species[j + 1]
  /\ atoms' = exchange(atoms, i, j)
  /\ out' = [op |-> "exchange", i |-> i, j |-> j, before |-> out.res,
             res |-> transform(clf, atoms', zeros(clf.real_dim, clf.ck2))]
  /\ UNCHANGED <<args, clf, dVars, cVars, wVars>>

TNext ==
  \/ \E species \in SpeciesLists(MaxAtoms), k_max \in 2..MaxK,
        norm_order \in NormOrders : TConstruct(species, k_max, norm_order)
  \/ \E n \in 0..MaxAtoms : \E positions \in [1..n -> Points] :
        TTransform(positions)
  \/ \E i, j \in 0..(MaxAtoms - 1) : TExchange(i, j)

SpecT == TInit /\ [][TNext]_vars

(***************************************************************************)
(* SpecTK: one Transformer of either package, constructed from a species   *)
(* list and used for one structure.                                        *)
(***************************************************************************)
\* the object is a kbody Transformer
IsKb(c) == "many_body_k" \in DOMAIN c

\* the chemical symbols handed to a kbody Transformer
KbSymbols == {SymC, SymH, SymN}

\* the species lists of 2 .. n symbols of a kbody Transformer
KbSpeciesLists(n) == UNION {[1..m -> KbSymbols] : m \in 2..n}

\* clf = kbody Transformer(species, many_body_k=many_body_k)
TKbConstruct(species, many_body_k) ==
  /\ clf.err = "unbuilt"
  /\ args' = [species |-> species, k_max |-> many_body_k]
  /\ clf' = kb_Transformer(species, many_body_k, NoKbodyTerms)
  /\ UNCHANGED <<atoms, out, dVars, cVars, wVars>>

\* features, _ = clf.transform([positions]) of a kbody Transformer
TKbTransform(positions) ==
  /\ IsKb(clf)
  /\ out.op = "init"
  /\ Len(positions) = Len(clf.species)
  /\ atoms' = positions
  /\ out' = [op |-> "transform",
             res |-> kb_transform(clf, <<positions>>, NoEnergies)]
  /\ UNCHANGED <<args, clf, dVars, cVars, wVars>>

\* Transformer.transform of a kcnn Transformer
TKTransform(positions) == ~ IsKb(clf) /\ TTransform(positions)

\* Transformer.transform of a kcnn Transformer after an exchange of two atoms
TKExchange(i, j) == ~ IsKb(clf) /\ TExchange(i, j)

\* the dispatchers whose pinned kbody_terms and split_dims are handed over
Pinners ==
  {FixedLenMultiTransformer((SymC :> 2) @@ (SymH :> 1), k_max, 1,
                            include_all_k) :
     k_max \in 2..MaxK, include_all_k \in BOOLEAN}

\* the species lists of 1 .. 3 real atoms of a pinned Transformer
PinnedLists == UNION {[1..m -> {SymC, SymH}] : m \in 1..3}

\* a buffer of the caller: a matrix filled with the value 7/1000
buffer(nrows, ncols) == [r \in 1..nrows |-> [c \in 1..ncols |-> 7]]

\* features, _, _ = clf.transform(atoms, features=buffer), the buffer having
\* drows rows and dcols columns more than clf.shape
TKTransformInto(drows, dcols) ==
  /\ clf.err = "none"
  /\ ~ IsKb(clf)
  /\ out.op = "init"
  /\ clf.real_dim + drows >= 1
  /\ atoms' = geom(Len(args.species) - clf.num_ghosts, 1)
  /\ LET given == buffer(clf.real_dim + drows, clf.ck2 + dcols)
         res == transform(clf, atoms', given)
     IN out' = [op |-> "transform_into", drows |-> drows, dcols |-> dcols,
                given |-> given, res |-> res,
                buffer |-> buffer_after(clf, atoms', given, res)]
  /\ UNCHANGED <<args, clf, dVars, cVars, wVars>>

\* the split_dims handed to a Transformer together with the k-body terms of a
\* dispatcher: the pinned ones, the pinned ones without their first entry, or
\* None
given_split_dims(fl, dims) ==
  CASE dims = "pinned" -> fl.split_dims
    [] dims = "short" -> Tail(fl.split_dims)
    [] dims = "none" -> NoSplitDims

\* clf = Transformer(species + ghosts, k_max, kbody_terms, split_dims), with
\* the k-body terms of a dispatcher
TConstructPinned(species, fl, dims) ==
  /\ clf.err = "unbuilt"
  /\ dims = "short" => fl.split_dims # <<>>
  /\ args' = [species |-> species \o repeat(GHOST, fl.num_ghosts),
              k_max |-> fl.k_max, norm_order |-> fl.norm_order,
              kbody_terms |-> fl.kbody_terms,
              split_dims |-> given_split_dims(fl, dims)]
  /\ clf' = Transformer(args'.species, args'.k_max, args'.kbody_terms,
                        args'.split_dims, args'.norm_order, FALSE)
  /\ UNCHANGED <<atoms, out, dVars, cVars, wVars>>

TKNext ==
  \/ \E species \in SpeciesLists(MaxAtoms), k_max \in 2..MaxK,
        norm_order \in NormOrders : TConstruct(species, k_max, norm_order)
  \/ \E species \in PinnedLists, fl \in Pinners,
        dims \in {"pinned", "short", "none"} :
        TConstructPinned(species, fl, dims)
  \/ \E n \in 0..MaxAtoms : \E positions \in [1..n -> Points] :
        TKTransform(positions)
  \/ \E i, j \in 0..(MaxAtoms - 1) : TKExchange(i, j)
  \/ \E drows \in {-1, 0, 1}, dcols \in {0, 1} : TKTransformInto(drows, dcols)
  \/ \E species \in KbSpeciesLists(MaxAtoms), many_body_k \in 2..MaxK :
        TKbConstruct(species, many_body_k)
  \/ \E n \in 0..MaxAtoms : \E positions \in [1..n -> Points] :
        TKbTransform(positions)

SpecTK == TInit /\ [][TKNext]_vars

(***************************************************************************)
(* SpecF: one kcnn Transformer with atomic forces on, built from a species *)
(* list alone or with the k-body terms and split_dims of a dispatcher.     *)
(***************************************************************************)
\* the norm_order values explored with atomic forces
ForceOrders == {1, 2}

\* the species lists of three real atoms followed by two ghosts
GhostLists == {real \o <<GHOST, GHOST>> : real \in [1..3 -> {SymC, SymH}]}

\* clf = Transformer(species, k_max=k_max, norm_order=norm_order,
\*                   atomic_forces=True)
FConstruct(species, k_max, norm_order) ==
  /\ clf.err = "unbuilt"
  /\ args' = [species |-> species, k_max |-> k_max, norm_order |-> norm_order]
  /\ clf' = Transformer(species, k_max, <<>>, NoSplitDims, norm_order, TRUE)
  /\ UNCHANGED <<atoms, out, dVars, cVars, wVars>>

\* clf = Transformer(species + ghosts, k_max, kbody_terms, split_dims,
\*                   atomic_forces=True), with the terms and split_dims of a
\* dispatcher
FConstructPinned(species, fl) ==
  /\ clf.err = "unbuilt"
  /\ args' = [species |-> species \o repeat(GHOST, fl.num_ghosts),
              k_max |-> fl.k_max, norm_order |-> fl.norm_order,
              kbody_terms |-> fl.kbody_terms, split_dims |-> fl.split_dims]
  /\ clf' = Transformer(args'.species, args'.k_max, args'.kbody_terms,
                        args'.split_dims, args'.norm_order, TRUE)
  /\ UNCHANGED <<atoms, out, dVars, cVars, wVars>>

\* clf.transform(atoms), up to the return of _conditionally_sort
FTransform(positions) ==
  /\ clf.err = "none"
  /\ out.op = "init"
  /\ Len(positions) = Len(args.species) - clf.num_ghosts
  /\ atoms' = positions
  /\ LET res == transform_forces(clf, positions)
     IN out' = [op |-> "forces", res |-> res,
                indexing |-> transform_indexing(clf, res)]
  /\ UNCHANGED <<args, clf, dVars, cVars, wVars>>

\* sample = mt.transform_trajectory(trajectory) of the dispatcher with atomic
\* forces on that built clf for the species of the trajectory, n structures;
\* singles are the results of mt.transform for each structure alone
FTransformTrajectory(n) ==
  /\ clf.err = "none"
  /\ out.op = "init"
  /\ "kbody_terms" \in DOMAIN args
  /\ LET species == SubSeq(args.species, 1, Len(args.species) - clf.num_ghosts)
         frames == [i \in 1..n |-> geom(Len(species), i)]
     IN /\ \E fl \in Pinners : /\ fl.kbody_terms = args.kbody_terms
                               /\ fl.split_dims = args.split_dims
                               /\ accept_species(fl, species)
        /\ atoms' = frames[1]
        /\ out' = [op |-> "trajectory",
                   singles |-> [i \in 1..n |->
                                  [res |-> transform_forces(clf, frames[i]),
                                   indexing |->
                                     transform_indexing(clf,
                                       transform_forces(clf, frames[i]))]],
                   res |-> trajectory_forces(clf, species, frames)]
  /\ UNCHANGED <<args, clf, dVars, cVars, wVars>>

FNext ==
  \/ \E species \in SpeciesLists(MaxAtoms) \cup GhostLists, k_max \in 2..MaxK,
        norm_order \in ForceOrders : FConstruct(species, k_max, norm_order)
  \/ \E species \in PinnedLists, fl \in Pinners : FConstructPinned(species, fl)
  \/ \E n \in 0..MaxAtoms : \E positions \in [1..n -> Points] :
        FTransform(positions)
  \/ \E n \in 1..MaxExamples : FTransformTrajectory(n)

SpecF == TInit /\ [][FNext]_vars

(***************************************************************************)
(* Properties of SpecT.                                                    *)
(***************************************************************************)
\* the rows lo+1 .. hi of m that equal row
row_count(m, lo, hi, row) == Cardinality({r \in (lo + 1)..hi : m[r] = row})

\* the two matrices hold the same rows in every term's block, up to their order
same_rows_per_block(c, a, b) ==
  /\ Len(a) = Len(b)
  /\ \A i \in 1..Len(c.kbody_terms) :
       \A r \in (c.offsets[i] + 1)..c.offsets[i + 1] :
         /\ row_count(a, c.offsets[i], c.offsets[i + 1], a[r])
              = row_count(b, c.offsets[i], c.offsets[i + 1], a[r])
         /\ row_count(a, c.offsets[i], c.offsets[i + 1], b[r])
              = row_count(b, c.offsets[i], c.offsets[i + 1], b[r])

\* C1 as claimed: after the coordinates of two atoms of one species are
\* exchanged, transform returns the same feature matrix cell for cell.
C1_CellForCell ==
  (out.op = "exchange" /\ out.res.err = "none")
    => out.res.features = out.before.features

\* C1 amended: after the coordinates of two atoms of one species are exchanged,
\* transform returns, in the row block of every k-body term, the same rows as
\* before, possibly in another order (the rows of the selections that contain
\* one of the two atoms trade places).
C1_SameRowsPerBlock ==
  (out.op = "exchange" /\ out.res.err = "none")
    => same_rows_per_block(clf, out.before.features, out.res.features)

\* an exchange of two atoms at different places of a term whose columns are
\* conditionally sorted, which moved rows of the matrix
C1_Witness ==
  /\ out.op = "exchange"
  /\ out.res.err = "none"
  /\ atoms[out.i + 1] # atoms[out.j + 1]
  /\ DOMAIN clf.cond_sort # {}
  /\ out.res.features # out.before.features

cell_pair(c, r, col) ==
  LET owner == {i \in 1..Len(c.kbody_terms) :
                  /\ c.kbody_terms[i] \in DOMAIN c.selections
                  /\ r - 1 >= c.offsets[i]
                  /\ r - 1 < c.offsets[i] + assign_istep(c, i)}
  IN IF owner = {} THEN <<>>
     ELSE LET i == CHOOSE x \in owner : TRUE
          IN combinations(c.selections[c.kbody_terms[i]][r - c.offsets[i]], 2)[col]

\* the cell's pair includes a ghost atom
ghost_cell(c, r, col) ==
  LET pair == cell_pair(c, r, col)
  IN /\ pair # <<>>
     /\ \/ c.species[pair[1] + 1] = GHOST
        \/ c.species[pair[2] + 1] = GHOST

\* every cell whose pair includes a ghost atom is 0
ghost_cells_zero(c, features) ==
  \A r \in 1..c.real_dim : \A col \in 1..c.ck2 :
    ghost_cell(c, r, col) => features[r][col] = 0

\* the ghosts are the last entries of the species list
ghosts_last(species) ==
  \A i \in 1..Len(species) : \A j \in 1..Len(species) :
    (species[i] = GHOST /\ species[j] # GHOST) => j < i

\* C10 as claimed: wherever the ghost symbols stand in the species list, every
\* cell whose pair includes a ghost atom is 0.
C10_AnyPosition ==
  (out.op \in {"transform", "exchange"} /\ out.res.err = "none")
    => ghost_cells_zero(clf, out.res.features)

\* C10 amended: when the ghost symbols are the last entries of the species list
\* (as MultiTransformer builds it), every cell of the returned feature matrix
\* whose pair includes a ghost atom is 0, for every coordinates input.
C10_GhostsLast ==
  (out.op \in {"transform", "exchange"} /\ out.res.err = "none"
     /\ ghosts_last(clf.species))
    => ghost_cells_zero(clf, out.res.features)

\* a transform of a list that ends with its ghost, with a ghost cell beside a
\* cell that is not 0
C10_Witness ==
  /\ out.op = "transform"
  /\ out.res.err = "none"
  /\ clf.num_ghosts > 0
  /\ ghosts_last(clf.species)
  /\ \E r \in 1..clf.real_dim : \E col \in 1..clf.ck2 :
       /\ ghost_cell(clf, r, col)
       /\ \E c2 \in 1..clf.ck2 : out.res.features[r][c2] # 0

(***************************************************************************)
(* Properties of the dispatchers (Spec).                                   *)
(***************************************************************************)
\* C2 as claimed: a Transformer is constructed only on the first access for a
\* formula, so the constructions of a kcnn dispatcher are as many as the
\* formulas it has cached.
C2_BuildOnce ==
  IsKcnn => builds = Cardinality(DOMAIN transformers)

\* C3: no step removes or replaces an entry of the cache, an access for a
\* cached formula returns the cached instance, and every entry is keyed by the
\* formula of its own species list.
C3_CacheStable ==
  [][/\ \A f \in DOMAIN transformers :
          f \in DOMAIN transformers' /\ transformers'[f] = transformers[f]
     /\ (last'.id # 0 /\ formula_of(mt, last'.species) \in DOMAIN transformers)
          => last'.id = transformers[formula_of(mt, last'.species)].id
     /\ \A f \in DOMAIN transformers' :
          get_formula(transformers'[f].clf.species) = f]_vars

\* a kcnn dispatcher holding two formulas returned an instance older than the
\* one it constructed during the call
C3_Witness ==
  /\ IsKcnn
  /\ Cardinality(DOMAIN transformers) >= 2
  /\ last.id # 0
  /\ last.id < builds

\* some symbol of the structure occurs more often than its configured maximum,
\* or is not configured at all
exceeds_maximum(self, species) ==
  \E e \in Range(species) :
     \/ e \notin DOMAIN self.max_occurs
     \/ (self.max_occurs[e] # Inf /\ Count(species, e) > self.max_occurs[e])

\* the ghost-padded species list has a number of ghosts other than 0, and other
\* than k_max - 2 with at most two ghosts
padded_ghosts_wrong(self, species) ==
  LET n == Count(species, GHOST) + self.num_ghosts
  IN n # 0 /\ (n > 2 \/ self.k_max - n # 2)

IsTransformCall(l) == l.op \in {"transform", "transform_trajectory"}

C9_GhostPadding ==
  IsKcnn =>
    LET n == IF mt.include_all_k /\ mt.k_max >= 3 THEN mt.k_max - 2 ELSE 0
    IN /\ Count(mt.pool, GHOST) = n
       /\ \A f \in DOMAIN transformers :
            Count(transformers[f].clf.species, GHOST) = n

(***************************************************************************)
(* Properties of two concurrent callers (SpecConc).                        *)
(***************************************************************************)
\* C4 as claimed: when both callers entered for the same formula while it was
\* not cached and both have got their Transformer, it was constructed once,
\* both hold the same instance and that instance is the cached one.
C4_BuiltOnceShared ==
  (/\ \A c \in Callers : pc[c] = "done" /\ loc[c].first
   /\ loc[1].species = loc[2].species)
    => /\ builds = 1
       /\ loc[1].clf.id = loc[2].clf.id
       /\ transformers[formula_of(mt, loc[1].species)].id = loc[1].clf.id

(***************************************************************************)
(* Properties of the record writers (SpecW).                               *)
(***************************************************************************)
\* the file at a path was written by this call
written_now(path) == path \in DOMAIN fs /\ fs[path].gen = "new"

\* C5: when kbody transform_and_save has raised out of _transform_and_save,
\* the data file does not exist and the call wrote no sidecar; and whenever
\* the call has written the sidecar, the data file is complete and closed.
C5_FailedWriteRemoved ==
  wr.kind = "kbody" =>
    /\ (wr.pc = "raised" /\ wr.stage = "data")
         => /\ wr.filename \notin DOMAIN fs
            /\ ~ written_now(sidecar_path(wr.filename))
            /\ wr.err # "none"
    /\ written_now(sidecar_path(wr.filename))
         => /\ written_now(wr.filename)
            /\ fs[wr.filename].closed
            /\ Len(fs[wr.filename].records) = Len(wr.coordinates)

\* the kbody writer failed on its second example, after one record had been
\* written, and the handler has run
C5_Witness ==
  /\ wr.kind = "kbody"
  /\ wr.pc = "raised"
  /\ wr.stage = "data"
  /\ wr.i >= 1
  /\ fs # EmptyDict

\* C6 as claimed: when FixedLen transform_and_save has raised while it
\* transformed or wrote the examples of a file, or solved for the baseline,
\* that data file does not exist and the call wrote no sidecar for it.
C6_PartialFileDeleted ==
  (wr.kind = "kcnn" /\ wr.pc = "raised" /\ wr.stage = "data")
    => /\ ~ written_now(wr.filename)
       /\ ~ written_now(sidecar_path(wr.filename))

(***************************************************************************)
(* Properties of one Transformer of either package (SpecTK).               *)
(***************************************************************************)
\* the sorted lists of k symbols that can be drawn from the species list
\* without taking an atom twice
drawn_terms(species, k) ==
  {t \in [1..k -> Range(species)] :
     /\ \A i \in 1..(k - 1) : t[i] = t[i + 1] \/ StrLess(t[i], t[i + 1])
     /\ \A e \in Range(t) : Count(t, e) <= Count(species, e)}

\* the key of a list of symbols, as the package of the Transformer writes it
term_key(c, t) == IF IsKb(c) THEN join_comma(t) ELSE Concat(t)

\* the Transformer was handed its kbody_terms
IsPinned == "kbody_terms" \in DOMAIN args

\* C11: the k-body terms of a Transformer constructed from a species list and
\* k_max are the keys of exactly the sorted k_max-symbol combinations that can
\* be drawn from the list, each once, in strictly ascending order of the key.
C11_TermCompleteness ==
  (clf.err = "none" /\ ~ IsPinned) =>
    /\ Range(clf.kbody_terms)
         = {term_key(clf, t) : t \in drawn_terms(args.species, args.k_max)}
    /\ \A i \in 1..(Len(clf.kbody_terms) - 1) :
         StrLess(clf.kbody_terms[i], clf.kbody_terms[i + 1])

\* a kcnn Transformer of three or more terms whose species list yields some
\* combination more than once
C11_Witness ==
  /\ clf.err = "none"
  /\ ~ IsKb(clf)
  /\ Len(clf.kbody_terms) >= 3
  /\ comb(Len(args.species), args.k_max) > Len(clf.kbody_terms)

\* C12: for every constructed Transformer of either package, in variable and
\* in pinned mode, split_dims has one entry per k-body term, its sum is
\* real_dim, and consecutive offsets differ by the term's split_dims entry.
C12_SplitDims ==
  clf.err = "none" =>
    LET offsets == IF IsKb(clf) THEN clf.kbody_offsets ELSE clf.offsets
        real_dim == IF IsKb(clf) THEN clf.total_dim ELSE clf.real_dim
    IN /\ Len(clf.split_dims) = Len(clf.kbody_terms)
       /\ Sum(clf.split_dims) = real_dim
       /\ Len(offsets) = Len(clf.kbody_terms) + 1
       /\ \A i \in 1..Len(clf.kbody_terms) :
            offsets[i + 1] - offsets[i] = clf.split_dims[i]

\* a pinned Transformer with a block that is larger than its selections
C12_Witness ==
  /\ clf.err = "none"
  /\ IsPinned
  /\ args.split_dims # NoSplitDims
  /\ \E i \in 1..Len(clf.kbody_terms) :
       /\ clf.kbody_sizes[i] > 0
       /\ clf.split_dims[i] > clf.kbody_sizes[i]

\* the term needs more atoms of some species than the species list contains
needs_more(species, kbody_term) ==
  \E e \in Range(get_atoms_from_kbody_term(kbody_term)) :
     Count(get_atoms_from_kbody_term(kbody_term), e) > Count(species, e)

\* every cell of the rows lo+1 .. hi of the matrix is 0
rows_zero(m, lo, hi) ==
  \A r \in (lo + 1)..hi : \A c \in 1..Len(m[r]) : m[r][c] = 0

\* C15: in a kcnn Transformer, a k-body term that needs more atoms of some
\* species than the species list contains is absent from the mapping and from
\* the selections, and every cell of its row block is 0 in the feature matrix
\* that transform returns when it starts from zeros.
C15_ExcludedTermsZero ==
  (clf.err = "none" /\ ~ IsKb(clf)) =>
    \A i \in 1..Len(clf.kbody_terms) :
       needs_more(clf.species, clf.kbody_terms[i]) =>
         /\ clf.kbody_terms[i] \notin DOMAIN clf.mapping
         /\ clf.kbody_terms[i] \notin DOMAIN clf.selections
         /\ (out.op \in {"transform", "exchange"} /\ out.res.err = "none")
              => rows_zero(out.res.features, clf.offsets[i], clf.offsets[i + 1])

\* a transform of a Transformer with an excluded term whose block has a row,
\* beside a block that holds a value
C15_Witness ==
  /\ clf.err = "none"
  /\ ~ IsKb(clf)
  /\ out.op = "transform"
  /\ out.res.err = "none"
  /\ \E i \in 1..Len(clf.kbody_terms) :
       /\ needs_more(clf.species, clf.kbody_terms[i])
       /\ clf.offsets[i + 1] > clf.offsets[i]
  /\ ~ rows_zero(out.res.features, 0, clf.real_dim)

(***************************************************************************)
(* Properties of the Transformers a dispatcher builds (Spec).              *)
(***************************************************************************)
\* FixedLenMultiTransformer.shape
fixed_shape(self) == <<self.total_dim, comb(self.k_max, 2)>>

\* the matrix has shape[1] rows of shape[2] cells each
has_shape(m, shape) ==
  /\ Len(m) = shape[1]
  /\ \A r \in 1..Len(m) : Len(m[r]) = shape[2]

\* C13: every Transformer a FixedLenMultiTransformer has dispatched to has the
\* pinned split_dims and the shape (sum(split_dims), C(k_max, 2)) of the
\* dispatcher, and every feature matrix that transform returned has that shape.
C13_SharedShape ==
  mt.kind = "FixedLenMultiTransformer" =>
    /\ fixed_shape(mt) = <<Sum(mt.split_dims), comb(mt.k_max, 2)>>
    /\ \A f \in DOMAIN transformers :
         /\ transformers[f].clf.split_dims = mt.split_dims
         /\ <<transformers[f].clf.real_dim, transformers[f].clf.ck2>>
              = fixed_shape(mt)
    /\ (last.op = "transform" /\ last.err = "none")
         => /\ has_shape(last.out.features, fixed_shape(mt))
            /\ last.out.split_dims = mt.split_dims

\* a FixedLenMultiTransformer that holds the Transformers of two formulas of
\* different numbers of atoms and has just returned a feature matrix
C13_Witness ==
  /\ mt.kind = "FixedLenMultiTransformer"
  /\ last.op = "transform"
  /\ last.err = "none"
  /\ \E f, g \in DOMAIN transformers :
       Len(transformers[f].clf.species) < Len(transformers[g].clf.species)

\* the number of selections of the term at position i (1-based) of kbody_terms,
\* 0 for a term that is excluded
num_selections(c, i) ==
  IF c.kbody_terms[i] \in DOMAIN c.selections
  THEN Len(c.selections[c.kbody_terms[i]]) ELSE 0

\* in the block of every term, binary_weights is 1 on the rows of the term's
\* selections and 0 on the other rows, and the selections fit into the block
weights_mark_selections(c) ==
  \A i \in 1..Len(c.kbody_terms) :
     /\ num_selections(c, i) <= c.split_dims[i]
     /\ \A r \in (c.offsets[i] + 1)..c.offsets[i + 1] :
          c.binary_weights[r]
            = IF r - 1 - c.offsets[i] < num_selections(c, i) THEN 1 ELSE 0

\* the species list of a cached Transformer without the ghosts the dispatcher
\* appended to it
unpadded(self, species) == SubSeq(species, 1, Len(species) - self.num_ghosts)

\* C14: in every Transformer that a MultiTransformer or FixedLenMultiTransformer
\* has built for a species list it accepts, and in the binary_weights of every sample returned by transform,
\* the selections of every term fit into its block and binary_weights is 1
\* exactly on the rows that hold a selection.
C14_WeightsMarkRealRows ==
  IsKcnn =>
    /\ \A f \in DOMAIN transformers :
         accept_species(mt, unpadded(mt, transformers[f].clf.species))
           => weights_mark_selections(transformers[f].clf)
    /\ (last.op = "transform" /\ last.err = "none")
         => last.out.binary_weights
              = transformers[formula_of(mt, last.species)].clf.binary_weights

\* a Transformer with a padding row behind the selections of a term and with a
\* term that is excluded, after a transform that returned a sample
C14_Witness ==
  /\ IsKcnn
  /\ last.op = "transform"
  /\ last.err = "none"
  /\ \E f \in DOMAIN transformers :
       LET c == transformers[f].clf
       IN /\ \E i \in 1..Len(c.kbody_terms) :
               num_selections(c, i) > 0 /\ num_selections(c, i) < c.split_dims[i]
          /\ \E i \in 1..Len(c.kbody_terms) :
               num_selections(c, i) = 0 /\ c.split_dims[i] > 0

\* the parts of a Transformer that depend on the species list alone
built_parts(c) ==
  [kbody_terms |-> c.kbody_terms, mapping |-> c.mapping,
   selections |-> c.selections, split_dims |-> c.split_dims]

\* what mt.transform returns for the species list on a dispatcher equal to
\* self that has served no call yet
first_transform(self, species) ==
  mt_transform(self, EmptyDict, species, geom(Len(species), 1), 1)

C17_ShapeMismatch ==
  (out.op = "transform_into" /\ (out.drows # 0 \/ out.dcols # 0)) =>
    /\ out.res.err = "ShapeError"
    /\ out.buffer = out.given

\* a buffer with one column too many was refused by a Transformer that fills a
\* buffer of its own shape
C17_Witness ==
  /\ out.op = "transform_into"
  /\ out.drows = 0
  /\ out.dcols = 1
  /\ out.res.err = "ShapeError"
  /\ transform(clf, atoms, buffer(clf.real_dim, clf.ck2)).err = "none"
  /\ transform(clf, atoms, buffer(clf.real_dim, clf.ck2)).features
       # buffer(clf.real_dim, clf.ck2)

\* the atom pairs of the j-th selection (1-based) of the term at position i
selection_pairs(c, i, j) ==
  Range(combinations(c.selections[c.kbody_terms[i]][j], 2))

\* the cells of row r agree with the atom pair that indexing names in each
\* column: normalised distance, reference length, +delta and -delta
row_consistent(c, positions, row) ==
  LET n == Len(c.species)
      nd == norm_dists(c, positions)
      delta == _get_delta(c.num_ghosts, _get_coords(c.num_ghosts, positions))
  IN \A col \in 1..c.ck2 :
        LET p == row.indexing[col][1] * n + row.indexing[col][2] + 1
        IN /\ row.indexing[col][1] >= 0
           /\ row.features[col] = nd[p]
           /\ row.cr[col] = c.normalizers[p]
           /\ \A axis \in 0..2 :
                /\ row.dr[axis * c.ck2 + col] = delta[p][axis + 1]
                /\ row.dr[3 * c.ck2 + axis * c.ck2 + col]
                     = 0 - delta[p][axis + 1]

\* C18: with atomic forces on, after _conditionally_sort every row that holds
\* a real selection names in each column of indexing one atom pair of that
\* selection, each pair once, and in that column features holds the
\* normalised distance of the pair, cr its reference length, and dr, for each
\* axis, +delta at axis*ck2+c and -delta at 3*ck2+axis*ck2+c of the same pair.
C18_JointSorting ==
  (out.op = "forces" /\ out.res.err = "none") =>
    \A i \in 1..Len(clf.kbody_terms) :
       clf.kbody_terms[i] \in DOMAIN clf.mapping =>
         \A j \in 1..Min(clf.kbody_sizes[i], clf.split_dims[i]) :
            LET row == out.res.rows[clf.offsets[i] + j]
            IN /\ row_consistent(clf, atoms, row)
               /\ Range(row.indexing) = selection_pairs(clf, i, j)
               /\ Cardinality(Range(row.indexing)) = clf.ck2

\* a row whose columns the sort moved, with a non-zero delta in it
C18_Witness ==
  /\ out.op = "forces"
  /\ out.res.err = "none"
  /\ \E r \in 1..clf.real_dim :
       /\ out.res.rows[r].indexing # _get_indexing_matrix(clf)[r]
       /\ out.res.rows[r].indexing[1][1] >= 0
       /\ \E c \in 1..(6 * clf.ck2) : out.res.rows[r].dr[c] # 0

\* the symbols of a term of either package
term_atoms(c, t) ==
  IF IsKb(c) THEN split_comma(t) ELSE get_atoms_from_kbody_term(t)

\* the bond type of column col (1-based) of a term: its pair of symbols
bond_type(c, t, col) ==
  LET pair == combinations(term_atoms(c, t), 2)[col]
  IN {pair[1], pair[2]}

\* the columns of a term that share the bond type of column col
bond_group(c, t, col) ==
  {d \in 1..Len(combinations(term_atoms(c, t), 2)) :
     bond_type(c, t, d) = bond_type(c, t, col)}

\* the k-th smallest of the values that row holds in the columns G
kth_smallest(row, G, k) ==
  CHOOSE v \in {row[d] : d \in G} :
     /\ Cardinality({d \in G : row[d] < v}) < k
     /\ k <= Cardinality({d \in G : row[d] <= v})

\* the row with every group of two or more columns of one bond type put in
\* ascending order, the other columns kept
groups_ascending(c, t, row) ==
  [col \in 1..Len(row) |->
     LET G == bond_group(c, t, col)
     IN IF Cardinality(G) >= 2
        THEN kth_smallest(row, G, Cardinality({d \in G : d <= col}))
        ELSE row[col]]

\* every row of the output is the row of the input with its groups ascending,
\* offsets being the offsets of the blocks of the terms
sorted_by_groups(c, offsets, input, output) ==
  /\ Len(output) = Len(input)
  /\ \A i \in 1..Len(c.kbody_terms) :
        \A r \in (offsets[i] + 1)..offsets[i + 1] :
           output[r] = groups_ascending(c, c.kbody_terms[i], input[r])

\* the rows before the sort of the transform that `out` records
rows_assigned ==
  IF IsKb(clf) THEN kb_assign(clf, kb_rr(clf, atoms))
  ELSE _assign(clf, norm_dists(clf, atoms),
               IF out.op = "transform_into" THEN out.given
               ELSE zeros(clf.real_dim, clf.ck2))

\* the rows that the transform recorded in `out` returned
rows_returned == IF IsKb(clf) THEN out.res.features[1] ELSE out.res.features

C19_WitnessKbody ==
  /\ IsKb(clf)
  /\ out.op = "transform"
  /\ out.res.err = "none"
  /\ rows_returned # rows_assigned

\* the sets of k atoms (0-based indices) whose symbols are those of the term,
\* each as often as the term names it
atom_sets(species, symbols) ==
  {S \in SUBSET (0..(Len(species) - 1)) :
     /\ Cardinality(S) = Len(symbols)
     /\ \A e \in Range(symbols) :
          Cardinality({a \in S : species[a + 1] = e}) = Count(symbols, e)}

RECURSIVE prod_choices(_, _, _)
\* the product of C(n_e, c_e) over the symbols e of keys
prod_choices(species, symbols, keys) ==
  IF keys = <<>> THEN 1
  ELSE comb(Count(species, Head(keys)), Count(symbols, Head(keys)))
       * prod_choices(species, symbols, Tail(keys))

\* one entry of a selection list: the atoms follow the sorted symbols of the
\* term, the atoms of one symbol in ascending order
entry_ordered(species, symbols, sel) ==
  /\ Len(sel) = Len(symbols)
  /\ [m \in 1..Len(sel) |-> species[sel[m] + 1]] = symbols
  /\ \A m \in 1..(Len(sel) - 1) :
        species[sel[m] + 1] = species[sel[m + 1] + 1] => sel[m] < sel[m + 1]

\* C20: for every term of the mapping (kcnn and kbody), the selection list
\* holds exactly the choices of the required number of atoms of each symbol
\* of the term: prod_e C(n_e, c_e) entries, no two of them the same set of
\* atoms, each of k distinct indices whose symbols are those of the term,
\* listed symbol by symbol in sorted order; for species [C, C, H] and
\* k_max = 2 these are CC -> [[0, 1]] and CH -> [[0, 2], [1, 2]].
C20_SelectionEnumeration ==
  clf.err = "none" =>
    /\ DOMAIN clf.mapping = DOMAIN clf.selections
    /\ \A t \in DOMAIN clf.mapping :
         LET symbols == term_atoms(clf, t)
             sels == clf.selections[t]
         IN /\ {Range(sels[j]) : j \in 1..Len(sels)}
                 = atom_sets(clf.species, symbols)
            /\ Len(sels) = prod_choices(clf.species, symbols,
                                        SortedSet(Range(symbols)))
            /\ Cardinality({Range(sels[j]) : j \in 1..Len(sels)}) = Len(sels)
            /\ \A j \in 1..Len(sels) :
                  /\ Cardinality(Range(sels[j])) = Len(symbols)
                  /\ entry_ordered(clf.species, symbols, sels[j])
    /\ (~ IsKb(clf) /\ clf.species = <<SymC, SymC, SymH>> /\ clf.k_max = 2
          /\ ~ IsPinned) =>
         clf.selections = (Concat(<<SymC, SymC>>) :> << <<0, 1>> >>)
                          @@ (Concat(<<SymC, SymH>>) :> << <<0, 2>>, <<1, 2>> >>)

\* a kcnn Transformer with a term of two symbols that has four selections or
\* more
C20_Witness ==
  /\ clf.err = "none"
  /\ ~ IsKb(clf)
  /\ \E t \in DOMAIN clf.mapping :
       /\ Cardinality(Range(term_atoms(clf, t))) >= 2
       /\ Len(clf.selections[t]) >= 4

\* the number of pairs of positions p2 < q2 of a selection that come before
\* the pair p < q when the pairs are listed by first, then second position
pairs_before(k, p, q) ==
  Cardinality({pq \in (1..k) \X (1..k) :
                 /\ pq[1] < pq[2]
                 /\ pq[1] < p \/ (pq[1] = p /\ pq[2] < q)})

\* C21: for every term of the mapping (kcnn and kbody) the matrix has C(k, 2)
\* rows and one column per selection, and the entry of the j-th pair of
\* positions (p, q) of the i-th selection is sel[p] * N + sel[q], N being the
\* number of atoms with the ghosts; every entry lies in [0, N * N) and is not
\* on the diagonal.
C21_IndexMapping ==
  clf.err = "none" =>
    \A t \in DOMAIN clf.mapping :
       LET k == Len(term_atoms(clf, t))
           n == Len(clf.species)
           sels == clf.selections[t]
           m == clf.mapping[t]
       IN /\ Len(m) = comb(k, 2)
          /\ \A j \in 1..Len(m) : Len(m[j]) = Len(sels)
          /\ \A i \in 1..Len(sels) : \A p, q \in 1..k :
                p < q =>
                  LET e == m[pairs_before(k, p, q) + 1][i]
                  IN /\ e = sels[i][p] * n + sels[i][q]
                     /\ e >= 0
                     /\ e < n * n
                     /\ e \div n # e % n

\* a kcnn Transformer with a ghost and a term of three atoms that has two
\* selections or more, one of them naming the atoms out of index order
C21_Witness ==
  /\ clf.err = "none"
  /\ ~ IsKb(clf)
  /\ clf.num_ghosts > 0
  /\ \E t \in DOMAIN clf.mapping :
       /\ Len(term_atoms(clf, t)) = 3
       /\ Len(clf.selections[t]) >= 2
       /\ \E i \in 1..Len(clf.selections[t]) :
            clf.selections[t][i][1] > clf.selections[t][i][2]

(***************************************************************************)
(* The force indices (SpecF).                                              *)
(***************************************************************************)
\* atom x (0-based) of the species list is a real atom
real_atom(x) ==
  x >= 0 /\ x < Len(clf.species) /\ clf.species[x + 1] # GHOST

\* the pair behind the cell (r, j) (0-based) of the sorted indexing matrix
pair_of(r, j) == out.res.rows[r + 1].indexing[j + 1]

\* the cells (r, j) whose pair consists of two real atoms
real_cells ==
  {rj \in (0..(Len(out.res.rows) - 1)) \X (0..(clf.ck2 - 1)) :
     /\ real_atom(pair_of(rj[1], rj[2])[1])
     /\ real_atom(pair_of(rj[1], rj[2])[2])}

\* the values the layout puts into row 3x + axis
layout_row(x, axis) ==
  {1 + rj[1] * 6 * clf.ck2 + axis * clf.ck2 + rj[2] :
     rj \in {c \in real_cells : pair_of(c[1], c[2])[1] = x}}
  \cup {1 + rj[1] * 6 * clf.ck2 + 3 * clf.ck2 + axis * clf.ck2 + rj[2] :
          rj \in {c \in real_cells : pair_of(c[1], c[2])[2] = x}}

\* the array holds the layout: every real cell has its six rows, every row
\* holds its values of the layout and 0 elsewhere, no value stands twice
layout_holds(positions) ==
  /\ \A rj \in real_cells :
        /\ 3 * pair_of(rj[1], rj[2])[1] + 3 <= Len(positions)
        /\ 3 * pair_of(rj[1], rj[2])[2] + 3 <= Len(positions)
  /\ \A row \in 1..Len(positions) :
        /\ {positions[row][s] : s \in 1..Len(positions[row])} \ {0}
             = layout_row((row - 1) \div 3, (row - 1) % 3)
        /\ \A s, t \in 1..Len(positions[row]) :
              (positions[row][s] = positions[row][t]
                 /\ positions[row][s] # 0) => s = t
  /\ \A row, other \in 1..Len(positions) :
        row # other =>
          ({positions[row][s] : s \in 1..Len(positions[row])}
             \cap {positions[other][s] : s \in 1..Len(positions[other])})
            \subseteq {0}

\* transform returned the force indices
indexing_returned ==
  out.op = "forces" /\ out.res.err = "none" /\ out.indexing.err = "none"

\* C22 as claimed: in force mode the returned array holds, for every cell
\* whose pair consists of two real atoms, the values of the layout in the
\* rows of the two atoms, 0 everywhere else, and no non-zero value twice,
\* wherever the ghost symbols stand in the species list.
C22_AnyPosition == indexing_returned => layout_holds(out.indexing.positions)

\* C22 amended: when the ghost symbols are the last entries of the species
\* list, the array transform returns in force mode holds for every cell
\* (r, j) whose pair (a, b) consists of two real atoms the value
\* 1 + r*6*ck2 + axis*ck2 + j in row 3a+axis and the value
\* 1 + r*6*ck2 + 3*ck2 + axis*ck2 + j in row 3b+axis; every other entry is 0
\* and no non-zero value occurs twice.
C22_ForceIndexLayout ==
  (indexing_returned /\ ghosts_last(clf.species))
    => layout_holds(out.indexing.positions)

\* an array returned for a list with a ghost at its end: cells of real pairs
\* in two rows of the tensor, a cell of a ghost pair, and a first and a
\* second atom written
C22_Witness ==
  /\ indexing_returned
  /\ ghosts_last(clf.species)
  /\ clf.num_ghosts > 0
  /\ \E c, d \in real_cells : c[1] # d[1]
  /\ \E r \in 0..(Len(out.res.rows) - 1), j \in 0..(clf.ck2 - 1) :
        /\ pair_of(r, j)[1] >= 0
        /\ ~ real_atom(pair_of(r, j)[2])
  /\ \E row \in 1..Len(out.indexing.positions) :
        \E s, t \in 1..Len(out.indexing.positions[row]) :
           /\ out.indexing.positions[row][s] # 0
           /\ out.indexing.positions[row][t] # 0
           /\ s # t

\* the number of real atoms of the species list
num_real_atoms == Len(clf.species) - clf.num_ghosts

\* no non-zero entry of the array refers to a cell whose pair includes a
\* ghost: the entry v stands for the cell of row (v - 1) div (6 * ck2) and
\* column (v - 1) mod ck2
no_ghost_entries(positions) ==
  \A row \in 1..Len(positions) : \A s \in 1..Len(positions[row]) :
     positions[row][s] # 0 =>
       <<(positions[row][s] - 1) \div (6 * clf.ck2),
         (positions[row][s] - 1) % clf.ck2>> \in real_cells

\* the rows of the atoms at and after index x are 0 throughout
rows_zero_from(positions, x) ==
  \A row \in 1..Len(positions) : \A s \in 1..Len(positions[row]) :
     (row - 1) \div 3 >= x => positions[row][s] = 0

coords_of_call == _get_coords(clf.num_ghosts, atoms)

\* delta[i, j] (0-based) of the last call before the rows and columns of the
\* ghosts are set to 0
delta_before_ghosts(i, j) ==
  _get_delta(0, coords_of_call)[i * Len(coords_of_call) + j + 1]

\* C24: in force mode (not periodic), for all atom indices i and j,
\* delta[i, j] = coords[j] - coords[i] and delta[j, i] = -delta[i, j], before
\* the rows and columns of the ghosts are set to 0.
C24_Antisymmetric ==
  (out.op = "forces" /\ out.res.err = "none") =>
    \A i, j \in 0..(Len(coords_of_call) - 1) :
       /\ delta_before_ghosts(i, j)
            = [x \in 1..3 |-> coords_of_call[j + 1][x]
                                - coords_of_call[i + 1][x]]
       /\ delta_before_ghosts(j, i)
            = [x \in 1..3 |-> 0 - delta_before_ghosts(i, j)[x]]

\* C25: every entry of split_dims is >= 1, both in variable mode and in the
\* pinned split_dims computed by FixedLenMultiTransformer from max_occurs, for
\* every k_max and include_all_k setting: every term owns at least one row.
C25_EveryTermOwnsARow ==
  (clf.err = "none" /\ ~ IsKb(clf)
     /\ (IsPinned => args.split_dims \in {p.split_dims : p \in Pinners}))
    => \A i \in 1..Len(clf.split_dims) : clf.split_dims[i] >= 1

\* C26: for every Transformer with force mode whose ghost count passes the
\* ghost-count check, while _transform_indexing_matrix runs the cursor loc[a]
\* stays within the num_entries columns and every written row is below
\* 3 x num_real: no write is out of bounds.
C26_ForceIndexCapacity ==
  (out.op = "forces" /\ out.res.err = "none")
    => out.indexing.err # "IndexError"

(***************************************************************************)
(* kbody: the writer against transform (SpecW).                            *)
(***************************************************************************)
\* Transformer.transform of the structure i (0-based) the writer was given
transform_of_example(i) ==
  kb_transform(clf, <<wr.coordinates[i + 1]>>, NoEnergies)

\* C27: for every kbody Transformer (also one whose kbody_terms contain terms
\* that are excluded from the mapping) and every structure, the features
\* _transform_and_save writes for the structure equal the features transform
\* returns for it, and the write of the structure completes without an error
\* whenever transform does.
C27_WriterEquivalence ==
  (wr.kind = "kbody" /\ Len(wr.energies) = Len(wr.coordinates)) =>
    /\ (wr.pc = "loop" /\ fs[wr.filename].gen = "new") =>
         \A i \in 0..(wr.i - 1) :
            /\ transform_of_example(i).err = "none"
            /\ fs[wr.filename].records[i + 1].features
                 = transform_of_example(i).features[1]
    /\ (wr.pc = "except" /\ wr.err \notin {"IOError", "none"}) =>
         transform_of_example(wr.i).err # "none"

(***************************************************************************)
(* The trajectory against the single structure.                            *)
(***************************************************************************)
\* mt.transform succeeds on structure i of the trajectory
single_succeeds(i) ==
  out.singles[i].res.err = "none" /\ out.singles[i].indexing.err = "none"

\* C28: for every non-empty trajectory of structures with the same accepted
\* species list, transform_trajectory succeeds whenever transform succeeds on
\* each structure, and entry i of its result equals what transform returns
\* for structure i alone (here with atomic forces on: features, coefficient
\* inputs, binary_weights and indexing).
C28_BatchSingle ==
  (out.op = "trajectory" /\ \A i \in 1..Len(out.singles) : single_succeeds(i))
    => /\ out.res.err = "none"
       /\ \A i \in 1..Len(out.singles) :
             /\ out.res.entries[i].rows = out.singles[i].res.rows
             /\ out.res.entries[i].positions
                  = out.singles[i].indexing.positions
             /\ out.res.binary_weights[i] = clf.binary_weights

(***************************************************************************)
(* Force mode against the plain transform.                                 *)
(***************************************************************************)
\* what the same Transformer returns for the same atoms with atomic forces off
plain_transform ==
  transform([clf EXCEPT !.atomic_forces = FALSE], atoms,
            zeros(clf.real_dim, clf.ck2))

\* transform, with atomic forces on, returned for the atoms
forces_returned ==
  out.res.err = "none" /\ out.indexing.err \in {"none", "NoSizes"}

\* C29: for the same species list, k-body terms, split_dims and coordinates a
\* Transformer with atomic forces on returns exactly the feature matrix one
\* with atomic forces off returns; the call leaves the Transformer and its
\* unsorted indexing matrix as they were.
C29_SameFeatures ==
  (out.op = "forces" /\ plain_transform.err = "none") =>
    /\ forces_returned
    /\ Len(out.res.rows) = Len(plain_transform.features)
    /\ \A r \in 1..Len(out.res.rows) :
          out.res.rows[r].features = plain_transform.features[r]

(***************************************************************************)
(* The atomic energies (Spec).                                             *)
(***************************************************************************)
\* the Transformer compute_atomic_energies used for its last call
energy_clf == transformers[formula_of(mt, last.species)].clf

\* the row of y_kbody handed to compute_atomic_energies
energy_row == [r \in 1..YCols |-> r]

\* the real atoms (0-based indices) of a selection
real_atoms_of(c, selection) ==
  {selection[m] : m \in {x \in 1..Len(selection) :
                           c.species[selection[x] + 1] # GHOST}}

\* the rows (1-based) of y_kbody that hold a selection of c, with the
\* selection they hold
selection_rows(c) ==
  {<<c.offsets[i] + j, c.selections[c.kbody_terms[i]][j]>> :
     <<i, j>> \in {ij \in (1..Len(c.kbody_terms)) \X (1..YCols) :
                     /\ c.kbody_terms[ij[1]] \in DOMAIN c.selections
                     /\ ij[2] <= Len(c.selections[c.kbody_terms[ij[1]]])}}

\* the energy of atom a (0-based) when every selection shares its value in
\* equal parts among its real atoms, in 1/60
shared_energy(c, species, a) ==
  EnergyUnit * OneBody[species[a + 1]]
  + sum_over([rs \in selection_rows(c) |->
                IF a \in real_atoms_of(c, rs[2])
                THEN energy_row[rs[1]]
                       * (EnergyUnit \div Cardinality(real_atoms_of(c, rs[2])))
                ELSE 0],
             selection_rows(c))

\* C30: compute_atomic_energies gives, for every example, one energy per
\* real atom; each selection's value is shared in equal parts 1/k among
\* exactly its k real atoms and never goes to a ghost index, so the energies
\* sum to the one-body energies of the atoms plus y_kbody over all rows that
\* hold a selection.  Stated for the accepted species lists whose Transformer
\* was built and whose atoms all have a one-body energy.
C30_EnergyPartition ==
  (/\ IsKcnn
   /\ last.op = "compute_atomic_energies"
   /\ accept_species(mt, last.species)
   /\ formula_of(mt, last.species) \in DOMAIN transformers
   /\ \A a \in 1..Len(last.species) : last.species[a] \in DOMAIN OneBody) =>
    /\ last.err = "none"
    /\ \A s \in 1..Len(last.out) :
          /\ Len(last.out[s]) = Len(last.species)
          /\ \A a \in 1..Len(last.species) :
                last.out[s][a] = shared_energy(energy_clf, last.species, a - 1)
          /\ Sum(last.out[s])
               = EnergyUnit * Sum([a \in 1..Len(last.species) |->
                                     OneBody[last.species[a]]])
                 + EnergyUnit
                     * Sum([r \in 1..energy_clf.real_dim |->
                              IF energy_clf.binary_weights[r] = 1
                              THEN energy_row[r] ELSE 0])

====
